---- MODULE Spec2Model ----
(***************************************************************************)
(* Resilience and persistence substrate of the Layne's World dashboard:    *)
(*   - retryWithBackoff  (utils/retryWithBackoff.ts)                       *)
(*   - LocalStorageService (services/LocalStorageService.ts)               *)
(*   - AuthTokenStore    (services/AuthTokenStore.ts)                      *)
(* The event loop is single threaded: every action below is one run of a   *)
(* synchronous piece of code between two suspension points.                *)
(***************************************************************************)
EXTENDS Integers, Sequences, FiniteSets, TLC

(***************************************************************************)
(* Bounds of the exploration.                                              *)
(***************************************************************************)
MaxRetriesBound == 3
MaxBaseDelay == 2
MaxLate == 1

\* Two concurrent callers of retryWithBackoff (two widgets fetching).
Invocations == {"w1", "w2"}

\* maxRetries comes from the caller or from getNumberEnvVar, which accepts
\* any integer parseInt yields, negative ones included.

None == [kind |-> "none"]

VARIABLES
  pc,           \* per invocation: position in retryWithBackoff
  maxRetries,   \* per invocation: parameter maxRetries
  baseDelay,    \* per invocation: parameter baseDelay
  attempt,      \* per invocation: loop variable attempt
  pending,      \* per invocation: calls of request() whose promise is unsettled
  calls,        \* per invocation: number of times request() was invoked
  thrown,       \* per invocation: errors thrown by request(), in order
  delay,        \* per invocation: ms passed to the current/last sleep(ms)
  elapsed,      \* per invocation: ms elapsed since that sleep was scheduled
  outcome,      \* per invocation: how the returned promise settled
  consoleLog,   \* per invocation: what its local logError wrote to console.error
  errorHistory, \* errorLogger.ts: in-memory history of the shared logger
  logged,       \* every logError call since the last clear: its input, its entry
  recent,       \* the array a caller got from getRecentErrors(), if it holds one
  logCalls,     \* number of logError calls made so far
  logResult,    \* how the last call into errorLogger.ts ended
  widgetStates, \* Dashboard: useState map widgetId -> WidgetState
  boundary,     \* this.state of the WidgetErrorBoundary mounted for a widget
  pendingCatch, \* an error caught while rendering, componentDidCatch still due
  lastUi,       \* the last component handler that ran and what it called
  localStorage, \* the browser store: a function from the present keys to text
  now,          \* Date.now()
  lastCall,     \* the last call into a storage service and what it returned
  lastSaved,    \* key -> value of the last save() not followed by another write
  tokenSaved,   \* service -> last saveToken() not followed by a foreign write
  lastAuth,     \* the last withAuthErrorHandling call: apiCall's and its own end
  child,        \* per widget: the mounted instance of its component, 0 for none
  loads,        \* per widget: loadVideos/loadDeals calls whose fetch is pending
  timers        \* pending setTimeout callbacks of scheduleDailyRefresh

storeVars == <<localStorage, now, lastCall, lastSaved, tokenSaved>>
loggerVars == <<errorHistory, logged, recent, logCalls, logResult>>
uiVars == <<widgetStates, boundary, pendingCatch, lastUi>>
appVars == <<lastAuth, child, loads, timers>>
retryVars == <<pc, maxRetries, baseDelay, attempt, pending, calls, thrown,
               delay, elapsed, outcome, consoleLog>>
vars == <<pc, maxRetries, baseDelay, attempt, pending, calls, thrown,
          delay, elapsed, outcome, consoleLog,
          errorHistory, logged, recent, logCalls, logResult,
          widgetStates, boundary, pendingCatch, lastUi,
          localStorage, now, lastCall, lastSaved, tokenSaved,
          lastAuth, child, loads, timers>>

(***************************************************************************)
(* retryWithBackoff.ts                                                     *)
(***************************************************************************)

\* Math.pow(2, n) for the small non-negative integers of the loop.
RECURSIVE Pow2(_)
Pow2(n) == IF n <= 0 THEN 1 ELSE 2 * Pow2(n - 1)

\* The error object the k-th call of request() throws.
RequestError(k) == [kind |-> "Error", origin |-> "request", call |-> k,
                    message |-> "Attempt " \o ToString(k) \o " failed"]

\* The value the k-th call of request() resolves with.
RequestValue(k) == [kind |-> "value", call |-> k]

\* new Error('Max retries exceeded') after the loop.
MaxRetriesExceededError ==
  [kind |-> "Error", origin |-> "retryWithBackoff", call |-> 0,
   message |-> "Max retries exceeded"]

\* logError of retryWithBackoff.ts: console.error only.
LocalLogError(log, message, context) ==
  Append(log, [message |-> "[RetryWithBackoff] " \o message, context |-> context])

\* The context of the report of the terminal failure.
TerminalContext(i, error) ==
  [attempt |-> attempt[i], maxRetries |-> maxRetries[i], error |-> error]

\* A seeded fault: linear instead of exponential backoff.
BackoffDelayLinear(base, n) == base * (n + 1)

\* delay = baseDelay * Math.pow(2, attempt)
BackoffDelay(base, n) == base * Pow2(n)

\* A seeded fault: the report names the 0-based index of the failed attempt.
RetryContextIndex(i, error, d) ==
  [attempt |-> attempt[i], maxRetries |-> maxRetries[i],
   nextRetryIn |-> ToString(d) \o "ms", error |-> error.message]

\* The context of the report of a failure that is retried.
RetryContext(i, error, d) ==
  [attempt |-> attempt[i] + 1, maxRetries |-> maxRetries[i],
   nextRetryIn |-> ToString(d) \o "ms", error |-> error.message]

\* A seeded fault: the loop runs one round too many.
LoopConditionOffByOne(a, mr) == a <= mr + 1

\* The loop condition `attempt <= maxRetries`.
LoopCondition(a, mr) == a <= mr

\* A seeded fault: the terminal attempt is recognised one attempt late.
IsLastAttemptLate(a, mr) == a = mr + 1

\* `attempt === maxRetries`: the attempt that just failed was the last one.
IsLastAttempt(a, mr) == a = mr

\* A seeded fault: the calls of request() are counted in a variable of the
\* module, which every invocation advances.
LoopHeadSharedCounter(i, a) ==
  IF LoopCondition(a, maxRetries'[i])
  THEN /\ pc' = [pc EXCEPT ![i] = "inflight"]
       /\ calls' = [j \in Invocations |-> calls[j] + 1]
       /\ pending' = [pending EXCEPT ![i] = @ \cup {calls[i] + 1}]
       /\ outcome' = outcome
  ELSE /\ pc' = [pc EXCEPT ![i] = "rejected"]
       /\ outcome' = [outcome EXCEPT ![i] = MaxRetriesExceededError]
       /\ UNCHANGED <<calls, pending>>

\* The loop head with the value a of attempt: either request() is called, or
\* the loop is left and the trailing throw runs.
LoopHead(i, a) ==
  IF LoopCondition(a, maxRetries'[i])
  THEN /\ pc' = [pc EXCEPT ![i] = "inflight"]
       /\ calls' = [calls EXCEPT ![i] = @ + 1]
       /\ pending' = [pending EXCEPT ![i] = @ \cup {calls[i] + 1}]
       /\ outcome' = outcome
  ELSE /\ pc' = [pc EXCEPT ![i] = "rejected"]
       /\ outcome' = [outcome EXCEPT ![i] = MaxRetriesExceededError]
       /\ UNCHANGED <<calls, pending>>

\* A caller invokes retryWithBackoff(request, mr, bd).
Invoke(i, mr, bd) ==
  /\ pc[i] = "idle"
  /\ maxRetries' = [maxRetries EXCEPT ![i] = mr]
  /\ baseDelay' = [baseDelay EXCEPT ![i] = bd]
  /\ attempt' = [attempt EXCEPT ![i] = 0]
  /\ LoopHead(i, 0)
  /\ UNCHANGED <<thrown, delay, elapsed, consoleLog, loggerVars, uiVars, storeVars,
               appVars>>

\* A seeded fault: `await request()` without the return, the loop goes on.
RequestSucceedsNoReturn(i) ==
  /\ pc[i] = "inflight"
  /\ pending' = [pending EXCEPT ![i] = @ \ {calls[i]}]
  /\ attempt' = [attempt EXCEPT ![i] = @ + 1]
  /\ IF LoopCondition(attempt[i] + 1, maxRetries[i])
     THEN /\ pc' = [pc EXCEPT ![i] = "inflight"]
          /\ calls' = [calls EXCEPT ![i] = @ + 1]
          /\ outcome' = outcome
     ELSE /\ pc' = [pc EXCEPT ![i] = "rejected"]
          /\ outcome' = [outcome EXCEPT ![i] = MaxRetriesExceededError]
          /\ calls' = calls
  /\ UNCHANGED <<maxRetries, baseDelay, thrown, delay, elapsed, consoleLog,
                 loggerVars, uiVars, storeVars, appVars>>

\* `return await request()`: the pending call resolves.
RequestSucceeds(i) ==
  /\ pc[i] = "inflight"
  /\ pc' = [pc EXCEPT ![i] = "resolved"]
  /\ outcome' = [outcome EXCEPT ![i] = RequestValue(calls[i])]
  /\ pending' = [pending EXCEPT ![i] = @ \ {calls[i]}]
  /\ UNCHANGED <<maxRetries, baseDelay, attempt, calls, thrown, delay,
                 elapsed, consoleLog, loggerVars, uiVars, storeVars, appVars>>

\* The catch branch: the pending call rejects with RequestError(calls[i]).
RequestFails(i) ==
  LET error == RequestError(calls[i])
      d == BackoffDelay(baseDelay[i], attempt[i])
  IN /\ pc[i] = "inflight"
     /\ thrown' = [thrown EXCEPT ![i] = Append(@, error)]
     /\ pending' = [pending EXCEPT ![i] = @ \ {calls[i]}]
     /\ IF IsLastAttempt(attempt[i], maxRetries[i])
        THEN /\ consoleLog' = [consoleLog EXCEPT ![i] =
                  LocalLogError(@, "Max retries exceeded", TerminalContext(i, error))]
             /\ pc' = [pc EXCEPT ![i] = "rejected"]
             /\ outcome' = [outcome EXCEPT ![i] = error]
             /\ UNCHANGED <<delay, elapsed>>
        ELSE /\ consoleLog' = [consoleLog EXCEPT ![i] =
                  LocalLogError(@, "Request failed, retrying...", RetryContext(i, error, d))]
             /\ pc' = [pc EXCEPT ![i] = "sleeping"]
             /\ delay' = [delay EXCEPT ![i] = d]
             /\ elapsed' = [elapsed EXCEPT ![i] = 0]
             /\ outcome' = outcome
     /\ UNCHANGED <<maxRetries, baseDelay, attempt, calls, loggerVars, uiVars, storeVars,
               appVars>>

\* The pending call of request() never settles (no timeout in the retrier).
RequestHangs(i) ==
  /\ pc[i] = "inflight"
  /\ pc' = [pc EXCEPT ![i] = "hung"]
  /\ UNCHANGED <<maxRetries, baseDelay, attempt, pending, calls, thrown,
                 delay, elapsed, outcome, consoleLog, loggerVars, uiVars, storeVars,
               appVars>>

\* One millisecond passes for every pending setTimeout; a due timer fires at
\* most MaxLate ms late.
Tick ==
  /\ \E i \in Invocations : pc[i] = "sleeping"
  /\ \A i \in Invocations : pc[i] = "sleeping" => elapsed[i] < delay[i] + MaxLate
  /\ elapsed' = [i \in Invocations |->
                   IF pc[i] = "sleeping" THEN elapsed[i] + 1 ELSE elapsed[i]]
  /\ UNCHANGED <<pc, maxRetries, baseDelay, attempt, pending, calls, thrown,
                 delay, outcome, consoleLog, loggerVars, uiVars, storeVars,
               appVars>>

\* sleep(delay) resolves: attempt++ and back to the loop head.
SleepElapses(i) ==
  /\ pc[i] = "sleeping"
  /\ elapsed[i] >= delay[i]
  /\ attempt' = [attempt EXCEPT ![i] = @ + 1]
  /\ UNCHANGED <<maxRetries, baseDelay>>
  /\ LoopHead(i, attempt[i] + 1)
  /\ UNCHANGED <<thrown, delay, elapsed, consoleLog, loggerVars, uiVars, storeVars,
               appVars>>

NextRetry ==
  \/ \E i \in Invocations, mr \in (-1)..MaxRetriesBound, bd \in 1..MaxBaseDelay : Invoke(i, mr, bd)
  \/ \E i \in Invocations : RequestSucceeds(i)
  \/ \E i \in Invocations : RequestFails(i)
  \/ \E i \in Invocations : RequestHangs(i)
  \/ \E i \in Invocations : SleepElapses(i)
  \/ Tick

(***************************************************************************)
(* JavaScript values and JSON                                              *)
(***************************************************************************)
Null == [t |-> "null"]
Undefined == [t |-> "undefined"]
NaN == [t |-> "NaN"]
Bool(b) == [t |-> "boolean", b |-> b]
Num(n) == [t |-> "number", n |-> n]
Str(s) == [t |-> "string", s |-> s]
DateOf(ms) == [t |-> "Date", ms |-> ms]
\* interface TokenData { token: string; expiresAt: number }
TokenData(token, expiresAt) ==
  [t |-> "object", token |-> token, expiresAt |-> expiresAt]
\* { data: 'test' }, the object the edge-case tests store.
DataObject == [t |-> "object", data |-> "test"]
\* An object that refers to itself, and a BigInt: JSON.stringify throws.
Circular == [t |-> "circular"]
BigIntValue == [t |-> "bigint"]

Return(v) == [kind |-> "return", value |-> v]
\* A thrown Error: its name and its message as the parts of the template.
Throw(name, message) == [kind |-> "throw", name |-> name, message |-> message]
Void == Return(Undefined)

\* Date.now() moves in steps of ClockStep ms, at most MaxClockSteps times.
ClockStep == 30000
MaxClockSteps == 2

\* expiresInSeconds: number = 3600
DefaultLifetime == 3600
Lifetimes == {-1, 0, 60, DefaultLifetime}
ExpiryTimes ==
  {n * ClockStep + l * 1000 : n \in 0..MaxClockSteps, l \in Lifetimes}

TOKEN_PREFIX == "auth_token_"
\* A seeded fault: every service shares one key.
getKeyShared(service) == TOKEN_PREFIX
\* private getKey(service)
getKey(service) == TOKEN_PREFIX \o service

Services == {"", "google"}
Tokens == {"abc123", "xyz789"}
GenericKeys == {"", "task_1"}
TokenKeys == {getKey(s) : s \in Services}
Keys == GenericKeys \cup TokenKeys

\* Date.prototype.toJSON for the first milliseconds of the epoch.
IsoString(ms) == "1970-01-01T00:00:00.00" \o ToString(ms) \o "Z"
Quote(s) == "\"" \o s \o "\""

\* JSON.stringify(value): a string, undefined, or a TypeError.
JSONstringify(v) ==
  CASE v.t = "null" -> Return(Str("null"))
    [] v.t = "NaN" -> Return(Str("null"))
    [] v.t = "boolean" -> Return(Str(IF v.b THEN "true" ELSE "false"))
    [] v.t = "number" -> Return(Str(ToString(v.n)))
    [] v.t = "string" -> Return(Str(Quote(v.s)))
    [] v.t = "Date" -> Return(Str(Quote(IsoString(v.ms))))
    [] v.t = "object" /\ "token" \in DOMAIN v ->
         Return(Str("{\"token\":" \o Quote(v.token) \o ",\"expiresAt\":"
                    \o ToString(v.expiresAt) \o "}"))
    [] v.t = "object" /\ "data" \in DOMAIN v ->
         Return(Str("{\"data\":" \o Quote(v.data) \o "}"))
    [] v.t = "undefined" -> Return(Undefined)
    [] v.t = "circular" ->
         Throw("TypeError", <<"Converting circular structure to JSON">>)
    [] v.t = "bigint" ->
         Throw("TypeError", <<"Do not know how to serialize a BigInt">>)

\* The values JSON.parse can yield from the texts of this model.
JsonValues ==
  {Null, Bool(TRUE), Bool(FALSE), Num(0), Num(7), Str(""), Str("a"),
   Str(IsoString(5)), DataObject}
  \cup {TokenData(tk, e) : tk \in Tokens, e \in ExpiryTimes}

ParseTable ==
  [text \in {JSONstringify(v).value.s : v \in JsonValues} |->
     CHOOSE v \in JsonValues : JSONstringify(v).value.s = text]

\* JSON.parse(text): the value, or a SyntaxError.
JSONparse(text) ==
  IF text \in DOMAIN ParseTable
  THEN Return(ParseTable[text])
  ELSE Throw("SyntaxError", <<"Unexpected token in JSON">>)

\* Texts written straight into localStorage by the edge-case tests.
CorruptTexts == {"{invalid json}", "just a plain string"}

(***************************************************************************)
(* window.localStorage                                                     *)
(***************************************************************************)
\* A seeded fault: an existing entry is not overwritten.
setItemKeepFirst(store, key, text) ==
  [k \in DOMAIN store \cup {key} |-> IF k \in DOMAIN store THEN store[k] ELSE text]

\* Storage.setItem(key, value) once the value is coerced to a string.
setItem(store, key, text) ==
  [k \in DOMAIN store \cup {key} |-> IF k = key THEN text ELSE store[k]]

\* String(x) of what JSON.stringify returned.
ToStorageString(v) == IF v.t = "undefined" THEN "undefined" ELSE v.s

\* Storage.getItem(key)
getItem(store, key) == IF key \in DOMAIN store THEN Str(store[key]) ELSE Null

\* A seeded fault: the empty key is skipped as falsy.
removeItemSkipEmpty(store, key) ==
  IF key = "" THEN store ELSE [k \in DOMAIN store \ {key} |-> store[k]]

\* Storage.removeItem(key)
removeItem(store, key) == [k \in DOMAIN store \ {key} |-> store[k]]

\* Storage.clear()
clearItems(store) == [k \in {} |-> ""]

(***************************************************************************)
(* LocalStorageService                                                     *)
(***************************************************************************)
\* save(key, value); full says whether setItem throws QuotaExceededError.
save(store, key, value, full) ==
  LET serialized == JSONstringify(value)
  IN IF serialized.kind = "throw"
     THEN [store |-> store,
           result |-> Throw("Error", <<"Failed to save to localStorage: ">>
                                      \o serialized.message)]
     ELSE IF full
     THEN [store |-> store,
           result |-> Throw("Error", <<"Storage quota exceeded while saving key: ", key>>)]
     ELSE [store |-> setItem(store, key, ToStorageString(serialized.value)),
           result |-> Void]

\* A seeded fault: `if (!serialized) return null` would be harmless; this one
\* turns a parse failure into null.
loadSwallow(store, key) ==
  LET serialized == getItem(store, key)
  IN IF serialized = Null THEN Return(Null)
     ELSE LET parsed == JSONparse(serialized.s)
          IN IF parsed.kind = "throw" THEN Return(Null) ELSE parsed

\* load(key)
load(store, key) ==
  LET serialized == getItem(store, key)
  IN IF serialized = Null THEN Return(Null)
     ELSE LET parsed == JSONparse(serialized.s)
          IN IF parsed.kind = "throw"
             THEN Throw("Error", <<"Failed to load from localStorage: ">>
                                 \o parsed.message)
             ELSE parsed

\* remove(key)
remove(store, key) == removeItem(store, key)

\* clear()
clear(store) == clearItems(store)

(***************************************************************************)
(* AuthTokenStore                                                          *)
(***************************************************************************)
\* if (!tokenData): JavaScript truthiness.
Truthy(v) ==
  CASE v.t \in {"null", "undefined", "NaN"} -> FALSE
    [] v.t = "boolean" -> v.b
    [] v.t = "number" -> v.n # 0
    [] v.t = "string" -> v.s # ""
    [] OTHER -> TRUE

\* tokenData.expiresAt: undefined on a value that has no such property.
ExpiresAtOf(v) ==
  IF v.t = "object" /\ "expiresAt" \in DOMAIN v THEN Num(v.expiresAt) ELSE Undefined

\* tokenData.token
TokenOf(v) ==
  IF v.t = "object" /\ "token" \in DOMAIN v THEN Str(v.token) ELSE Undefined

\* A seeded fault: a token is still valid at the instant it expires.
isExpiredStrict(clock, tokenData) ==
  LET e == ExpiresAtOf(tokenData)
  IN IF e.t = "number" THEN clock > e.n ELSE FALSE

\* isExpired(tokenData): Date.now() >= tokenData.expiresAt; a comparison
\* with undefined is false.
isExpired(clock, tokenData) ==
  LET e == ExpiresAtOf(tokenData)
  IN IF e.t = "number" THEN clock >= e.n ELSE FALSE

\* A seeded fault: the lifetime is taken as milliseconds.
saveTokenMillis(store, clock, service, token, expiresInSeconds, full) ==
  LET expiresAt == clock + expiresInSeconds
      tokenData == TokenData(token, expiresAt)
  IN save(store, getKey(service), tokenData, full)

\* saveToken(service, token, expiresInSeconds)
saveToken(store, clock, service, token, expiresInSeconds, full) ==
  LET expiresAt == clock + (expiresInSeconds * 1000)
      tokenData == TokenData(token, expiresAt)
  IN save(store, getKey(service), tokenData, full)

\* removeToken(service)
removeToken(store, service) == remove(store, getKey(service))

\* A seeded fault: a failing load is taken for a missing record.
getTokenSwallow(store, clock, service) ==
  LET loaded == load(store, getKey(service))
  IN IF loaded.kind = "throw" THEN [store |-> store, result |-> Return(Null)]
     ELSE IF ~Truthy(loaded.value) THEN [store |-> store, result |-> Return(Null)]
     ELSE IF isExpired(clock, loaded.value)
     THEN [store |-> removeToken(store, service), result |-> Return(Null)]
     ELSE [store |-> store, result |-> Return(TokenOf(loaded.value))]

\* getToken(service)
getToken(store, clock, service) ==
  LET loaded == load(store, getKey(service))
  IN IF loaded.kind = "throw" THEN [store |-> store, result |-> loaded]
     ELSE IF ~Truthy(loaded.value) THEN [store |-> store, result |-> Return(Null)]
     ELSE IF isExpired(clock, loaded.value)
     THEN [store |-> removeToken(store, service), result |-> Return(Null)]
     ELSE [store |-> store, result |-> Return(TokenOf(loaded.value))]

\* isTokenValid(service): this.getToken(service) !== null
isTokenValid(store, clock, service) ==
  LET got == getToken(store, clock, service)
  IN IF got.result.kind = "throw" THEN got
     ELSE [store |-> got.store, result |-> Return(Bool(got.result.value # Null))]

(***************************************************************************)
(* Calls into the two services, one action per method.                     *)
(***************************************************************************)
Put(f, k, v) == [x \in DOMAIN f \cup {k} |-> IF x = k THEN v ELSE f[x]]
Drop(f, ks) == [x \in DOMAIN f \ ks |-> f[x]]
ServicesOfKey(key) == {s \in Services : getKey(s) = key}
Called(op, arg, result) == [op |-> op, arg |-> arg, result |-> result]

\* Values handed to save(): JSON-serializable ones, undefined, and two on
\* which JSON.stringify throws.
SaveValues ==
  {Null, NaN, Bool(TRUE), Num(7), Str("a"), DateOf(5), DataObject, Undefined,
   Circular, BigIntValue}

Save(key, value) ==
  \E full \in BOOLEAN :
    LET r == save(localStorage, key, value, full)
    IN /\ localStorage' = r.store
       /\ lastCall' = Called("save", key, r.result)
       /\ IF r.result.kind = "return"
          THEN /\ lastSaved' = Put(lastSaved, key, value)
               /\ tokenSaved' = Drop(tokenSaved, ServicesOfKey(key))
          ELSE UNCHANGED <<lastSaved, tokenSaved>>
       /\ UNCHANGED <<now, retryVars, loggerVars, uiVars, appVars>>

Load(key) ==
  /\ lastCall' = Called("load", key, load(localStorage, key))
  /\ UNCHANGED <<localStorage, now, lastSaved, tokenSaved, retryVars, loggerVars, uiVars,
               appVars>>

Remove(key) ==
  /\ localStorage' = remove(localStorage, key)
  /\ lastCall' = Called("remove", key, Void)
  /\ lastSaved' = Drop(lastSaved, {key})
  /\ tokenSaved' = Drop(tokenSaved, ServicesOfKey(key))
  /\ UNCHANGED <<now, retryVars, loggerVars, uiVars, appVars>>

Clear ==
  /\ localStorage' = clear(localStorage)
  /\ lastCall' = Called("clear", "", Void)
  /\ lastSaved' = Drop(lastSaved, Keys)
  /\ tokenSaved' = Drop(tokenSaved, Services)
  /\ UNCHANGED <<now, retryVars, loggerVars, uiVars, appVars>>

\* Other code writes a text under the key with localStorage.setItem.
Tamper(key, text) ==
  /\ localStorage' = setItem(localStorage, key, text)
  /\ lastCall' = Called("setItem", key, Void)
  /\ lastSaved' = Drop(lastSaved, {key})
  /\ tokenSaved' = Drop(tokenSaved, ServicesOfKey(key))
  /\ UNCHANGED <<now, retryVars, loggerVars, uiVars, appVars>>

SaveToken(service, token, expiresInSeconds) ==
  \E full \in BOOLEAN :
    LET r == saveToken(localStorage, now, service, token, expiresInSeconds, full)
    IN /\ localStorage' = r.store
       /\ lastCall' = Called("saveToken", service, r.result)
       /\ IF r.result.kind = "return"
          THEN /\ lastSaved' = Put(lastSaved, getKey(service),
                                   TokenData(token, now + expiresInSeconds * 1000))
               /\ tokenSaved' = Put(tokenSaved, service,
                                    [token |-> token, savedAt |-> now,
                                     lifetime |-> expiresInSeconds])
          ELSE UNCHANGED <<lastSaved, tokenSaved>>
       /\ UNCHANGED <<now, retryVars, loggerVars, uiVars, appVars>>

GetToken(service) ==
  LET r == getToken(localStorage, now, service)
  IN /\ localStorage' = r.store
     /\ lastCall' = Called("getToken", service, r.result)
     /\ lastSaved' = Drop(lastSaved, Keys \ DOMAIN r.store)
     /\ UNCHANGED <<now, tokenSaved, retryVars, loggerVars, uiVars, appVars>>

IsTokenValid(service) ==
  LET r == isTokenValid(localStorage, now, service)
  IN /\ localStorage' = r.store
     /\ lastCall' = Called("isTokenValid", service, r.result)
     /\ lastSaved' = Drop(lastSaved, Keys \ DOMAIN r.store)
     /\ UNCHANGED <<now, tokenSaved, retryVars, loggerVars, uiVars, appVars>>

RemoveToken(service) ==
  /\ localStorage' = removeToken(localStorage, service)
  /\ lastCall' = Called("removeToken", service, Void)
  /\ lastSaved' = Drop(lastSaved, Keys \ DOMAIN localStorage')
  /\ tokenSaved' = Drop(tokenSaved, {service})
  /\ UNCHANGED <<now, retryVars, loggerVars, uiVars, appVars>>

\* Time passes.
AdvanceClock ==
  /\ now < MaxClockSteps * ClockStep
  /\ now' = now + ClockStep
  /\ lastCall' = Called("none", "", Void)
  /\ UNCHANGED <<localStorage, lastSaved, tokenSaved, retryVars, loggerVars, uiVars,
               appVars>>

(***************************************************************************)
(* errorLogger.ts: strings and the regular expressions of the redaction    *)
(***************************************************************************)
\* s[i - 1] as a string of one character, "" outside the string.
CharAt(s, i) == IF i >= 1 /\ i <= Len(s) THEN SubSeq(s, i, i) ELSE ""
CharsOf(s) == {SubSeq(s, k, k) : k \in 1..Len(s)}
\* The character classes of the patterns: [A-Z], \d, \s, \w, the complement
\* of [^\s&], [A-Za-z0-9._%+-], [A-Za-z0-9.-] and [A-Z|a-z]; lowerOf is the
\* case folding of the i flag and of toLowerCase.
CharClass ==
  LET lowers == "abcdefghijklmnopqrstuvwxyz"
      uppers == "ABCDEFGHIJKLMNOPQRSTUVWXYZ"
      letters == CharsOf(lowers) \cup CharsOf(uppers)
      digits == CharsOf("0123456789")
      spaces == {" ", "\t", "\n", "\r"}
  IN [upper |-> CharsOf(uppers),
      digit |-> digits,
      space |-> spaces,
      word |-> letters \cup digits \cup {"_"},
      nonValue |-> spaces \cup {"&"},
      local |-> letters \cup digits \cup CharsOf("._%+-"),
      domain |-> letters \cup digits \cup CharsOf(".-"),
      tld |-> letters \cup {"|"},
      lowerOf |-> [c \in CharsOf(uppers) |->
                     CharAt(lowers, CHOOSE k \in 1..Len(uppers) :
                                      CharAt(uppers, k) = c)]]
Max(S) == CHOOSE m \in S : \A n \in S : n <= m
Min(S) == CHOOSE m \in S : \A n \in S : m <= n
\* \b between s[i - 2] and s[i - 1]
WordBoundary(s, i) ==
  (CharAt(s, i - 1) \in CharClass.word) # (CharAt(s, i) \in CharClass.word)

\* Index of the last character of the longest run, from index j on, of
\* characters that are in chars (inside) or are not in chars.
RunEnd(s, j, chars, inside) ==
  Min({k \in j..(Len(s) + 1) :
         k = Len(s) + 1 \/ ((CharAt(s, k) \in chars) # inside)}) - 1

LowerChar(c) == IF c \in CharClass.upper THEN CharClass.lowerOf[c] ELSE c

\* String.prototype.toLowerCase
RECURSIVE toLowerCase(_)
toLowerCase(s) ==
  IF Len(s) <= 1 THEN LowerChar(s)
  ELSE toLowerCase(SubSeq(s, 1, Len(s) \div 2))
         \o toLowerCase(SubSeq(s, Len(s) \div 2 + 1, Len(s)))

\* String.prototype.includes
includes(s, sub) ==
  \E i \in 0..(Len(s) - Len(sub)) : SubSeq(s, i + 1, i + Len(sub)) = sub

REDACTED == "[REDACTED]"

\* /word[:\s=]+[^\s&]+/gi and /bearer\s+[^\s&]+/gi: the spellings the
\* optional parts of the word allow, and the separators besides white space.
KeywordPattern(words, seps) ==
  [kind |-> "keyword", words |-> words, seps |-> seps]

\* const SENSITIVE_PATTERNS
SENSITIVE_PATTERNS ==
  << KeywordPattern({"token", "tokens"}, ":="),
     KeywordPattern({"password", "passwords"}, ":="),
     KeywordPattern({"apikey", "api_key", "api-key",
                     "apikeys", "api_keys", "api-keys"}, ":="),
     KeywordPattern({"secret", "secrets"}, ":="),
     KeywordPattern({"authorization"}, ":="),
     KeywordPattern({"bearer"}, ""),
     KeywordPattern({"accesstoken", "access_token", "access-token"}, ":="),
     KeywordPattern({"refreshtoken", "refresh_token", "refresh-token"}, ":="),
     KeywordPattern({"clientsecret", "client_secret", "client-secret"}, ":="),
     [kind |-> "email"],
     [kind |-> "ssn"],
     [kind |-> "card"] >>

\* [:\s=]+[^\s&]+ (or \s+[^\s&]+) from index j: the separators are greedy
\* and give back what the value needs; 0 when there is no match.
SepValueEnd(s, j, seps) ==
  LET sepChars == CharClass.space \cup CharsOf(seps)
      starts == {m \in (j + 1)..(RunEnd(s, j, sepChars, TRUE) + 1) :
                   CharAt(s, m) # "" /\ CharAt(s, m) \notin CharClass.nonValue}
  IN IF starts = {} THEN 0
     ELSE RunEnd(s, Max(starts), CharClass.nonValue, FALSE)

\* Index of the last character of the match that starts at i, 0 for none.
KeywordMatchEnd(s, i, pattern) ==
  LET ws == {w \in pattern.words :
               /\ i + Len(w) - 1 <= Len(s)
               /\ LowerChar(CharAt(s, i)) = CharAt(w, 1)
               /\ toLowerCase(SubSeq(s, i, i + Len(w) - 1)) = w
               /\ SepValueEnd(s, i + Len(w), pattern.seps) > 0}
  IN IF ws = {} THEN 0
     ELSE SepValueEnd(s, i + Max({Len(w) : w \in ws}), pattern.seps)

\* /\b\d{3}-\d{2}-\d{4}\b/g
SsnMatchEnd(s, i) ==
  IF /\ WordBoundary(s, i)
     /\ \A k \in {0, 1, 2, 4, 5, 7, 8, 9, 10} :
          CharAt(s, i + k) \in CharClass.digit
     /\ CharAt(s, i + 3) = "-"
     /\ CharAt(s, i + 6) = "-"
     /\ WordBoundary(s, i + 11)
  THEN i + 10 ELSE 0

\* /\b\d{16}\b/g
CardMatchEnd(s, i) ==
  IF /\ WordBoundary(s, i)
     /\ \A k \in 0..15 : CharAt(s, i + k) \in CharClass.digit
     /\ WordBoundary(s, i + 16)
  THEN i + 15 ELSE 0

\* /\b[A-Za-z0-9._%+-]+@[A-Za-z0-9.-]+\.[A-Z|a-z]{2,}\b/g: the domain is
\* greedy and ends at the last dot that a top-level name can follow.
EmailMatchEnd(s, i) ==
  LET at == RunEnd(s, i, CharClass.local, TRUE) + 1
      domEnd == RunEnd(s, at + 1, CharClass.domain, TRUE)
      TldEnds(d) == {t \in (d + 2)..RunEnd(s, d + 1, CharClass.tld, TRUE) :
                       WordBoundary(s, t + 1)}
      dots == {d \in (at + 2)..domEnd : CharAt(s, d) = "." /\ TldEnds(d) # {}}
  IN IF /\ WordBoundary(s, i)
        /\ at > i
        /\ CharAt(s, at) = "@"
        /\ dots # {}
     THEN Max(TldEnds(Max(dots))) ELSE 0

MatchEnd(s, i, pattern) ==
  CASE pattern.kind = "keyword" -> KeywordMatchEnd(s, i, pattern)
    [] pattern.kind = "email" -> EmailMatchEnd(s, i)
    [] pattern.kind = "ssn" -> SsnMatchEnd(s, i)
    [] pattern.kind = "card" -> CardMatchEnd(s, i)

\* s.replace(pattern, '[REDACTED]') from index i on: the leftmost match is
\* replaced and the search goes on behind it.
RECURSIVE ReplaceFrom(_, _, _)
ReplaceFrom(s, i, pattern) ==
  LET found == {k \in i..Len(s) : MatchEnd(s, k, pattern) >= k}
  IN IF found = {} THEN SubSeq(s, i, Len(s))
     ELSE SubSeq(s, i, Min(found) - 1) \o REDACTED
            \o ReplaceFrom(s, MatchEnd(s, Min(found), pattern) + 1, pattern)

\* SENSITIVE_PATTERNS.forEach(pattern => redacted = redacted.replace(...)),
\* with the patterns from the n-th on.
RECURSIVE RedactFrom(_, _)
RedactFrom(s, n) ==
  IF n > Len(SENSITIVE_PATTERNS) THEN s
  ELSE RedactFrom(ReplaceFrom(s, 1, SENSITIVE_PATTERNS[n]), n + 1)


(***************************************************************************)
(* errorLogger.ts: values, redaction of a context, the log entry           *)
(***************************************************************************)
\* A plain object as the function from its own enumerable keys to values,
\* an array as the sequence of its items.
ObjectOf(fields) == [t |-> "map", fields |-> fields]
ArrayOf(items) == [t |-> "array", items |-> items]
\* An Error: message and stack are own properties that are not enumerable.
ErrorOf(message) ==
  [t |-> "Error", message |-> message,
   stack |-> "Error: " \o message \o "\n    at render"]

ErrorCategory ==
  [NETWORK |-> "network", AUTHENTICATION |-> "authentication",
   VALIDATION |-> "validation", WIDGET |-> "widget", STORAGE |-> "storage",
   UNKNOWN |-> "unknown"]

\* key.toLowerCase().replace(/[-_\s]/g, '')
RECURSIVE StripSeparators(_)
StripSeparators(s) ==
  IF s = "" THEN ""
  ELSE (IF CharAt(s, 1) \in {"-", "_"} \/ CharAt(s, 1) \in CharClass.space
        THEN "" ELSE CharAt(s, 1)) \o StripSeparators(Tail(s))

sensitiveKeys ==
  << "token", "password", "secret", "apikey", "api_key", "authorization",
     "auth", "accesstoken", "access_token", "refreshtoken", "refresh_token",
     "clientsecret", "client_secret", "ssn", "creditcard", "credit_card",
     "cvv", "pin" >>

\* A seeded fault: the key is compared without being normalised.
isSensitiveKeyExact(key) ==
  \E n \in 1..Len(sensitiveKeys) : includes(key, sensitiveKeys[n])
\* function isSensitiveKey(key)
isSensitiveKey(key) ==
  LET lowerKey == StripSeparators(toLowerCase(key))
  IN \E n \in 1..Len(sensitiveKeys) : includes(lowerKey, sensitiveKeys[n])

\* function redactSensitiveData(data)
RECURSIVE redactSensitiveData(_)
redactSensitiveData(data) ==
  CASE data.t = "string" -> Str(RedactFrom(data.s, 1))
    [] data.t = "array" ->
         ArrayOf([n \in 1..Len(data.items) |->
                    redactSensitiveData(data.items[n])])
    [] data.t = "map" ->
         ObjectOf([key \in DOMAIN data.fields |->
                     IF isSensitiveKey(key) THEN Str(REDACTED)
                     ELSE redactSensitiveData(data.fields[key])])
    [] data.t \in {"Date", "Error"} -> ObjectOf(<<>>)
    [] OTHER -> data

\* redactSensitiveData never returns from an object that contains itself,
\* unless a sensitive key keeps it from descending: the stack overflows.
RECURSIVE Overflows(_)
Overflows(data) ==
  CASE data.t = "circular" -> TRUE
    [] data.t = "array" ->
         \E n \in 1..Len(data.items) : Overflows(data.items[n])
    [] data.t = "map" ->
         \E key \in DOMAIN data.fields :
           ~isSensitiveKey(key) /\ Overflows(data.fields[key])
    [] OTHER -> FALSE

\* obj.prop for the values of this model: undefined when there is none.
Prop(obj, name) ==
  CASE obj.t = "map" /\ name \in DOMAIN obj.fields -> obj.fields[name]
    [] obj.t \in {"Error", "AuthenticationError"} /\ name = "message" ->
         Str(obj.message)
    [] obj.t \in {"Error", "AuthenticationError"} /\ name = "stack" ->
         Str(obj.stack)
    [] OTHER -> Undefined

\* function categorizeError(error, context): a category, or the TypeError
\* of calling toLowerCase on a message that is not a string.
categorizeError(error, context) ==
  IF Prop(error, "message").t # "string"
  THEN Throw("TypeError",
             <<"Cannot read properties of undefined (reading 'toLowerCase')">>)
  ELSE LET message == toLowerCase(Prop(error, "message").s)
       IN Return(
            CASE includes(message, "network") \/ includes(message, "fetch")
                   \/ includes(message, "timeout") -> ErrorCategory.NETWORK
              [] includes(message, "auth") \/ includes(message, "token")
                   \/ includes(message, "unauthorized") ->
                   ErrorCategory.AUTHENTICATION
              [] includes(message, "validation") \/ includes(message, "invalid")
                   \/ includes(message, "required") -> ErrorCategory.VALIDATION
              [] includes(message, "storage") \/ includes(message, "quota")
                   \/ includes(message, "localstorage") -> ErrorCategory.STORAGE
              [] Truthy(Prop(context, "widgetId")) -> ErrorCategory.WIDGET
              [] OTHER -> ErrorCategory.UNKNOWN)

\* const MAX_ERROR_HISTORY
MAX_ERROR_HISTORY == 50

\* A seeded fault: the newest entry is dropped instead of the oldest.
storeErrorInMemoryDropNewest(history, logEntry) ==
  IF Len(history) + 1 > MAX_ERROR_HISTORY THEN history
  ELSE Append(history, logEntry)
\* function storeErrorInMemory(logEntry): push, then shift when too long
storeErrorInMemory(history, logEntry) ==
  LET pushed == Append(history, logEntry)
  IN IF Len(pushed) > MAX_ERROR_HISTORY THEN Tail(pushed) ELSE pushed

\* const { error, errorInfo, ...cleanContext } = context || {}
ContextOf(context) == IF Truthy(context) THEN context ELSE ObjectOf(<<>>)
CleanContext(context) ==
  LET ctx == ContextOf(context)
  IN ObjectOf([key \in DOMAIN ctx.fields \ {"error", "errorInfo"} |->
                 ctx.fields[key]])

\* The logEntry of logError(message, context) at the time clock.
LogEntry(clock, message, context, category) ==
  LET error == Prop(ContextOf(context), "error")
  IN [category |-> category,
      message |-> RedactFrom(message, 1),
      timestamp |-> DateOf(clock),
      context |-> redactSensitiveData(CleanContext(context)),
      stackTrace |-> IF Truthy(Prop(error, "stack"))
                     THEN redactSensitiveData(Prop(error, "stack"))
                     ELSE Undefined]

\* export function logError(message, context): the outcome of the call and
\* the history it leaves.  What it prints with console.error in development
\* is written and never read again.
logError(history, clock, message, context) ==
  LET error == Prop(ContextOf(context), "error")
      cleanContext == CleanContext(context)
      category == IF Truthy(error) THEN categorizeError(error, cleanContext)
                  ELSE Return(ErrorCategory.UNKNOWN)
  IN IF Overflows(cleanContext)
     THEN [result |-> Throw("RangeError",
                            <<"Maximum call stack size exceeded">>),
           history |-> history]
     ELSE IF category.kind = "throw"
     THEN [result |-> category, history |-> history]
     ELSE [result |-> Void,
           history |-> storeErrorInMemory(history,
                         LogEntry(clock, message, context, category.value))]

\* A seeded fault: the history itself is handed out.
getRecentErrorsAlias(history) == [items |-> history, alias |-> TRUE]
\* export function getRecentErrors(): [...errorHistory], a new array
getRecentErrors(history) == [items |-> history, alias |-> FALSE]

\* export function clearErrorHistory(): errorHistory.length = 0
clearErrorHistory(history) == <<>>

(***************************************************************************)
(* errorLogger.ts: the calls into the module                               *)
(***************************************************************************)
\* Number of logError calls explored when the caller numbers its messages,
\* and when it draws them from LogCalls.
MaxLogCalls == 52
MaxDrawnCalls == 2

\* Messages and contexts callers pass to logError.
SecretContext ==
  ObjectOf(("userId" :> Str("u1")) @@ ("password" :> Str("hunter2"))
           @@ ("API-Key" :> Str("k-123")) @@ ("note" :> Str("token: t0k"))
           @@ ("request" :>
                 ObjectOf(("url" :> Str("/deals"))
                          @@ ("Access_Token" :> Str("at-1"))
                          @@ ("credit card" :> Num(4111))
                          @@ ("items" :>
                                ArrayOf(<<ObjectOf(("PIN" :> Num(1234))
                                                   @@ ("ssn" :> Str("078"))
                                                   @@ ("id" :> Num(7))),
                                          Str("client_secret=s3")>>)))))
LogCalls ==
  { [message |-> "Request failed", context |-> Undefined],
    [message |-> "Bearer abc123 rejected", context |-> SecretContext],
    [message |-> "Authorization: Bearer abc123",
     context |-> ObjectOf(("Client Secret" :> Str("s3cr3t"))
                          @@ ("when" :> DateOf(0)))],
    [message |-> "Retry for bob@example.com with bearer  xyz789&r=1",
     context |-> ObjectOf(("widgetId" :> Str("deals-widget"))
                          @@ ("error" :> ErrorOf("Network timeout")))],
    [message |-> "Widget Error",
     context |-> ObjectOf(("widgetId" :> Str("youtube-widget")))],
    [message |-> "Save failed",
     context |-> ObjectOf(("error" :> ErrorOf("token=abc123 invalid"))
                          @@ ("authToken" :> Circular))],
    [message |-> "Unhandled rejection",
     context |-> ObjectOf(("error" :> Str("boom")))],
    [message |-> "Render failed",
     context |-> ObjectOf(("props" :> Circular))] }


\* What a call of logError does to the state of errorLogger.ts.
DoLogError(message, context) ==
  LET r == logError(errorHistory, now, message, context)
  IN /\ errorHistory' = r.history
     /\ logged' = IF r.result = Void
                  THEN Append(logged, [message |-> message,
                                       context |-> context,
                                       entry |-> r.history[Len(r.history)]])
                  ELSE logged
     /\ logCalls' = logCalls + 1
     /\ logResult' = [op |-> "logError", result |-> r.result]
     /\ UNCHANGED recent

\* A caller holds the array of getRecentErrors() for a while; the module is
\* explored with no logError call in between.
LogError(message, context, cap) ==
  /\ logCalls < cap
  /\ recent = None
  /\ DoLogError(message, context)
  /\ UNCHANGED <<uiVars, storeVars, retryVars, appVars>>

GetRecentErrors ==
  /\ recent = None
  /\ recent' = getRecentErrors(errorHistory)
  /\ logResult' = [op |-> "getRecentErrors", result |-> Void]
  /\ UNCHANGED <<errorHistory, logged, logCalls, uiVars, storeVars, retryVars,
               appVars>>

Mutated(items, how) ==
  IF how = "length = 0" THEN <<>>
  ELSE Append(items, [category |-> ErrorCategory.UNKNOWN, message |-> "forged",
                      timestamp |-> DateOf(0), context |-> ObjectOf(<<>>),
                      stackTrace |-> Undefined])

\* The caller changes the array it holds; an array that is the history
\* itself changes the history.
MutateRecent(how) ==
  /\ recent # None
  /\ recent.items = errorHistory
  /\ recent' = [recent EXCEPT !.items = Mutated(recent.items, how)]
  /\ errorHistory' = IF recent.alias THEN Mutated(errorHistory, how)
                     ELSE errorHistory
  /\ logResult' = [op |-> "mutate", result |-> Void]
  /\ UNCHANGED <<logged, logCalls, uiVars, storeVars, retryVars, appVars>>

ReleaseRecent ==
  /\ recent # None
  /\ recent' = None
  /\ logResult' = [op |-> "release", result |-> Void]
  /\ UNCHANGED <<errorHistory, logged, logCalls, uiVars, storeVars, retryVars,
               appVars>>

ClearErrorHistory ==
  /\ errorHistory' = clearErrorHistory(errorHistory)
  /\ logged' = <<>>
  /\ logResult' = [op |-> "clearErrorHistory", result |-> Void]
  /\ UNCHANGED <<recent, logCalls, uiVars, storeVars, retryVars, appVars>>

(***************************************************************************)
(* Dashboard.tsx, WidgetWrapper.tsx, WidgetErrorBoundary.tsx               *)
(***************************************************************************)
\* const widgetConfigs: only the widgets that exist are enabled.
widgetConfigs ==
  << [id |-> "news-widget", title |-> "News Aggregator", enabled |-> FALSE],
     [id |-> "tasks-widget", title |-> "Task Manager", enabled |-> FALSE],
     [id |-> "calendar-widget", title |-> "Calendar", enabled |-> FALSE],
     [id |-> "youtube-widget", title |-> "YouTube Feed", enabled |-> TRUE],
     [id |-> "deals-widget", title |-> "Tech Deals", enabled |-> TRUE] >>
Configs == {widgetConfigs[n] : n \in 1..Len(widgetConfigs)}
WidgetIds == {c.id : c \in Configs}
ConfigOf(widgetId) == CHOOSE c \in Configs : c.id = widgetId

\* Number of render failures explored.
MaxFailures == 2

\* initializeWidgets: a WidgetState per enabled config.  The fields id,
\* type, title and refreshInterval are copied by every handler and never
\* changed; they are left out.
initializeWidgets(clock) ==
  [w \in {c.id : c \in {d \in Configs : d.enabled}} |->
     [isLoading |-> TRUE, error |-> Null, lastRefresh |-> DateOf(clock)]]

\* A seeded fault: the flag is set on every entry of the map.
handleWidgetLoadingChangeAll(states, widgetId, isLoading) ==
  [w \in DOMAIN states |-> [states[w] EXCEPT !.isLoading = isLoading]]
\* handleWidgetLoadingChange(widgetId, isLoading)
handleWidgetLoadingChange(states, widgetId, isLoading) ==
  IF widgetId \in DOMAIN states
  THEN [states EXCEPT ![widgetId].isLoading = isLoading]
  ELSE states

\* handleWidgetError(widgetId, error)
handleWidgetError(states, widgetId, error) ==
  IF widgetId \in DOMAIN states
  THEN [states EXCEPT ![widgetId].error = error, ![widgetId].isLoading = FALSE]
  ELSE states

\* handleWidgetRetry(widgetId)
handleWidgetRetry(states, clock, widgetId) ==
  IF widgetId \in DOMAIN states
  THEN [states EXCEPT ![widgetId].error = Null,
                      ![widgetId].isLoading = TRUE,
                      ![widgetId].lastRefresh = DateOf(clock)]
  ELSE states

\* renderWidget(config): the widgets that get a WidgetWrapper, and with it
\* a WidgetErrorBoundary.
Rendered(states) == {c.id : c \in {d \in Configs : d.enabled /\ d.id \in DOMAIN states}}

\* A seeded fault: one boundary around all the widgets.
EnclosingBoundaryShared(widgetId) == "youtube-widget"
\* renderWidget(config): the widget is the child of the WidgetWrapper, and
\* so of the WidgetErrorBoundary, that carries its own config.id.
EnclosingBoundary(widgetId) == widgetId

\* The props WidgetWrapper passes to its WidgetErrorBoundary; Dashboard
\* always supplies onRetry.
BoundaryProps(widgetId) ==
  [widgetId |-> widgetId, widgetTitle |-> ConfigOf(widgetId).title,
   onRetry |-> TRUE]

\* constructor: this.state
InitialBoundaryState == [hasError |-> FALSE, error |-> Null, errorInfo |-> Null]

\* setState(partial): the partial state is merged into the state.
Merge(state, partial) ==
  [k \in DOMAIN state |-> IF k \in DOMAIN partial THEN partial[k] ELSE state[k]]

\* A seeded fault: the caught error is not kept.
getDerivedStateFromErrorFlagOnly(error) == [hasError |-> TRUE]
\* static getDerivedStateFromError(error)
getDerivedStateFromError(error) == [hasError |-> TRUE, error |-> error]

\* A seeded fault: the report carries no widget tags.
componentDidCatchUntagged(props, error, errorInfo) ==
  [message |-> "Widget Error",
   context |-> ObjectOf([error |-> error, errorInfo |-> errorInfo]),
   partial |-> [errorInfo |-> errorInfo]]
\* componentDidCatch(error, errorInfo): the logError call it makes and the
\* partial state it sets afterwards.
componentDidCatch(props, error, errorInfo) ==
  [message |-> "Widget Error",
   context |-> ObjectOf([error |-> error, errorInfo |-> errorInfo,
                         widgetId |-> Str(props.widgetId),
                         widgetTitle |-> Str(props.widgetTitle)]),
   partial |-> [errorInfo |-> errorInfo]]

\* A seeded fault: the callback runs before the reset, and once more after.
handleRetryTwice(state, props) ==
  [state |-> Merge(state, InitialBoundaryState),
   effects |-> IF props.onRetry THEN <<"onRetry", "setState", "onRetry">>
               ELSE <<"setState">>]
\* handleRetry: the state it sets and what it calls, in order.
handleRetry(state, props) ==
  [state |-> Merge(state, [hasError |-> FALSE, error |-> Null,
                           errorInfo |-> Null]),
   effects |-> IF props.onRetry THEN <<"setState", "onRetry">>
               ELSE <<"setState">>]

\* WidgetErrorFallback({ error, widgetTitle, onRetry })
WidgetErrorFallback(error, widgetTitle) ==
  [view |-> "fallback",
   title |-> "Error in " \o widgetTitle,
   message |-> IF Truthy(Prop(error, "message"))
               THEN Prop(error, "message").s
               ELSE "An unexpected error occurred",
   retry |-> TRUE]

\* A seeded fault: the children are rendered whatever the state.
renderChildrenAlways(state, props, children) == children
\* render()
render(state, props, children) ==
  IF state.hasError THEN WidgetErrorFallback(state.error, props.widgetTitle)
  ELSE children

\* The article WidgetWrapper puts inside the boundary: header, loading
\* overlay, inline error display, and the widget itself when no error is set.
WrapperArticle(widgetId, widgetState) ==
  [view |-> "article",
   title |-> ConfigOf(widgetId).title,
   refreshDisabled |-> widgetState.isLoading,
   loadingOverlay |-> widgetState.isLoading,
   errorDisplay |-> IF Truthy(widgetState.error)
                    THEN Prop(widgetState.error, "message").s ELSE "",
   errorRetry |-> Truthy(widgetState.error),
   body |-> ~Truthy(widgetState.error)]

\* What the boundary of a widget renders in the current state.
BoundaryOutput(widgetId) ==
  render(boundary[widgetId], BoundaryProps(widgetId),
         WrapperArticle(widgetId, widgetStates[widgetId]))

Ui(op, widgetId, error, effects) ==
  [op |-> op, widget |-> widgetId, error |-> error, effects |-> effects]

\* The effect that runs once after Dashboard has mounted: the widget states
\* are set and the next render mounts a wrapper per rendered widget.
InitializeWidgets ==
  /\ DOMAIN widgetStates = {}
  /\ widgetStates' = initializeWidgets(now)
  /\ boundary' = [w \in Rendered(widgetStates') |-> InitialBoundaryState]
  /\ lastUi' = Ui("initializeWidgets", "", Null, <<>>)
  /\ UNCHANGED <<pendingCatch, loggerVars, storeVars, retryVars, appVars>>

\* Render phase: a widget that is being rendered throws; React hands the
\* error to the nearest boundary above it and renders that boundary again.
ChildThrows(widgetId, error) ==
  LET b == EnclosingBoundary(widgetId)
  IN /\ pendingCatch = None
     /\ logCalls < MaxFailures
     /\ widgetId \in DOMAIN boundary
     /\ ~boundary[b].hasError
     /\ ~Truthy(widgetStates[widgetId].error)
     /\ boundary' = [boundary EXCEPT
                       ![b] = Merge(@, getDerivedStateFromError(error))]
     /\ pendingCatch' = [boundary |-> b, error |-> error,
                         errorInfo |-> ObjectOf([componentStack |->
                                         Str("\n    at " \o widgetId)])]
     /\ lastUi' = Ui("getDerivedStateFromError", b, error, <<>>)
     /\ UNCHANGED <<widgetStates, loggerVars, storeVars, retryVars, appVars>>

\* Commit phase of the same update: componentDidCatch runs on the boundary
\* that caught the error; setState is not reached when logError throws.
DidCatch ==
  /\ pendingCatch # None
  /\ LET b == pendingCatch.boundary
         call == componentDidCatch(BoundaryProps(b), pendingCatch.error,
                                   pendingCatch.errorInfo)
         r == logError(errorHistory, now, call.message, call.context)
     IN /\ DoLogError(call.message, call.context)
        /\ boundary' = IF r.result = Void
                       THEN [boundary EXCEPT ![b] = Merge(@, call.partial)]
                       ELSE boundary
        /\ lastUi' = Ui("componentDidCatch", b, pendingCatch.error,
                        IF r.result = Void THEN <<"logError", "setState">>
                        ELSE <<"logError">>)
  /\ pendingCatch' = None
  /\ UNCHANGED <<widgetStates, storeVars, retryVars, appVars>>

\* The Retry button of the fallback: handleRetry, and through onRetry the
\* handleWidgetRetry of the Dashboard.
RetryClicked(b) ==
  /\ pendingCatch = None
  /\ b \in DOMAIN boundary
  /\ boundary[b].hasError
  /\ LET r == handleRetry(boundary[b], BoundaryProps(b))
         n == Cardinality({k \in 1..Len(r.effects) : r.effects[k] = "onRetry"})
     IN /\ boundary' = [boundary EXCEPT ![b] = r.state]
        /\ widgetStates' = IF n > 0 THEN handleWidgetRetry(widgetStates, now, b)
                           ELSE widgetStates
        /\ lastUi' = Ui("handleRetry", b, Null, r.effects)
  /\ UNCHANGED <<pendingCatch, loggerVars, storeVars, retryVars, appVars>>

\* The widget's fetch fails and the widget calls onError(error).
ReportError(widgetId, error) ==
  /\ pendingCatch = None
  /\ widgetId \in DOMAIN widgetStates
  /\ widgetStates' = handleWidgetError(widgetStates, widgetId, error)
  /\ lastUi' = Ui("onError", widgetId, error, <<"handleWidgetError">>)
  /\ UNCHANGED <<boundary, pendingCatch, loggerVars, storeVars, retryVars, appVars>>

\* The widget calls onLoadingChange(isLoading).
ReportLoading(widgetId, isLoading) ==
  /\ pendingCatch = None
  /\ widgetId \in DOMAIN widgetStates
  /\ widgetStates' = handleWidgetLoadingChange(widgetStates, widgetId, isLoading)
  /\ lastUi' = Ui("onLoadingChange", widgetId, Null,
                  <<"handleWidgetLoadingChange">>)
  /\ UNCHANGED <<boundary, pendingCatch, loggerVars, storeVars, retryVars, appVars>>

\* handleWidgetRetry called by the refresh button of the header, by the
\* Retry button of the inline error display, or by the refresh interval.
WidgetRetry(widgetId, source) ==
  /\ pendingCatch = None
  /\ widgetId \in DOMAIN widgetStates
  /\ source = "refresh" =>
       ~boundary[widgetId].hasError /\ ~widgetStates[widgetId].isLoading
  /\ source = "inline retry" =>
       ~boundary[widgetId].hasError /\ Truthy(widgetStates[widgetId].error)
  /\ widgetStates' = handleWidgetRetry(widgetStates, now, widgetId)
  /\ lastUi' = Ui(source, widgetId, Null, <<"handleWidgetRetry">>)
  /\ UNCHANGED <<boundary, pendingCatch, loggerVars, storeVars, retryVars, appVars>>

(***************************************************************************)
(* authErrorHandler.ts                                                     *)
(***************************************************************************)
\* Number of withAuthErrorHandling calls explored.
MaxAuthCalls == 1

\* export const AuthErrorType (components/AuthError.tsx)
AuthErrorType ==
  [TOKEN_EXPIRED |-> "token_expired",
   AUTHENTICATION_FAILED |-> "authentication_failed",
   INVALID_CREDENTIALS |-> "invalid_credentials",
   NETWORK_ERROR |-> "network_error", UNKNOWN |-> "unknown"]

\* new AuthenticationError(message, errorType, serviceName)
AuthenticationError(message, errorType, serviceName) ==
  [t |-> "AuthenticationError", message |-> message,
   stack |-> "Error: " \o message \o "\n    at new AuthenticationError",
   errorType |-> errorType, serviceName |-> serviceName]

\* What apiCall() can end with: a value, or a rejection with what it threw:
\* Errors, objects that carry response.status with or without a message, and
\* an AuthenticationError made for another service.
ApiOutcomes ==
  {Return(Str("data"))} \cup
  {[kind |-> "rejected", error |-> e] :
     e \in {ErrorOf("Network timeout"),
            ErrorOf("Unauthorized"),
            ObjectOf([message |-> Str("Forbidden"),
                      response |-> ObjectOf([status |-> Num(403)])]),
            ObjectOf([message |-> Str("Not Found"),
                      response |-> ObjectOf([status |-> Num(404)])]),
            ObjectOf([response |-> ObjectOf([status |-> Num(401)])]),
            AuthenticationError("Token expired", AuthErrorType.TOKEN_EXPIRED,
                                "calendar")}}

\* export function isAuthError(error)
isAuthError(error) ==
  IF error.t = "AuthenticationError" THEN TRUE
  ELSE LET text == Prop(error, "message")
           message == IF text.t = "string" THEN toLowerCase(text.s) ELSE ""
           status == Prop(Prop(error, "response"), "status")
       IN \/ status = Num(401)
          \/ status = Num(403)
          \/ includes(message, "unauthorized")
          \/ includes(message, "authentication")
          \/ includes(message, "token")
          \/ includes(message, "expired")

\* export function getAuthErrorType(error)
getAuthErrorType(error) ==
  IF error.t = "AuthenticationError" THEN error.errorType
  ELSE LET text == Prop(error, "message")
           message == IF text.t = "string" THEN toLowerCase(text.s) ELSE ""
           status == Prop(Prop(error, "response"), "status")
       IN CASE includes(message, "expired") \/ includes(message, "token") ->
                 AuthErrorType.TOKEN_EXPIRED
            [] status = Num(401) -> AuthErrorType.INVALID_CREDENTIALS
            [] status = Num(403) -> AuthErrorType.AUTHENTICATION_FAILED
            [] includes(message, "network") \/ includes(message, "fetch") ->
                 AuthErrorType.NETWORK_ERROR
            [] OTHER -> AuthErrorType.UNKNOWN

\* handleAuthError: the logError call it makes first.
handleAuthErrorLog(error, serviceName) ==
  [message |-> "Authentication error for " \o serviceName,
   context |-> ObjectOf([error |-> error,
                         serviceName |-> Str(serviceName),
                         errorType |-> Str(getAuthErrorType(error))])]

\* export function handleAuthError(error, serviceName, authTokenStore), with
\* log what its logError call did: the removal and the error it returns;
\* what logError throws leaves through it before the token is removed.
handleAuthError(store, error, serviceName, log) ==
  IF log.result.kind = "throw"
  THEN [result |-> log.result, store |-> store]
  ELSE [result |-> Return(AuthenticationError(
                     IF Truthy(Prop(error, "message"))
                     THEN Prop(error, "message").s
                     ELSE "Authentication failed for " \o serviceName,
                     getAuthErrorType(error), serviceName)),
        store |-> removeToken(store, serviceName)]

\* export async function withAuthErrorHandling(apiCall, serviceName,
\* authTokenStore), from the moment apiCall() has settled with api; log is
\* what the logError call of handleAuthError did, if it is reached.
withAuthErrorHandling(store, api, serviceName, log) ==
  IF api.kind = "return" \/ ~isAuthError(api.error)
  THEN [result |-> api, store |-> store]
  ELSE LET handled == handleAuthError(store, api.error, serviceName, log)
       IN [result |-> IF handled.result.kind = "throw" THEN handled.result
                      ELSE [kind |-> "rejected",
                            error |-> handled.result.value],
           store |-> handled.store]

\* A widget awaits withAuthErrorHandling(apiCall, service, store) and
\* apiCall() settles.
WithAuthErrorHandling(service, api) ==
  /\ logCalls < MaxAuthCalls
  /\ recent = None
  /\ \E call \in {IF api.kind = "rejected" /\ isAuthError(api.error)
                  THEN handleAuthErrorLog(api.error, service) ELSE None} :
     \E log \in {IF call = None THEN None
                 ELSE logError(errorHistory, now, call.message, call.context)} :
     \E r \in {withAuthErrorHandling(localStorage, api, service, log)} :
        /\ IF call = None THEN UNCHANGED loggerVars
           ELSE /\ errorHistory' = log.history
                /\ logged' = IF log.result = Void
                             THEN Append(logged,
                                         [message |-> call.message,
                                          context |-> call.context,
                                          entry |-> log.history[Len(log.history)]])
                             ELSE logged
                /\ logCalls' = logCalls + 1
                /\ logResult' = [op |-> "logError", result |-> log.result]
                /\ UNCHANGED recent
        /\ localStorage' = r.store
        /\ lastSaved' = Drop(lastSaved, Keys \ DOMAIN r.store)
        /\ IF r.store = localStorage THEN UNCHANGED <<lastCall, tokenSaved>>
           ELSE /\ lastCall' = Called("removeToken", service, Void)
                /\ tokenSaved' = Drop(tokenSaved, {service})
        /\ lastAuth' = [service |-> service, api |-> api, result |-> r.result]
  /\ UNCHANGED <<now, child, loads, timers, uiVars, retryVars>>

(***************************************************************************)
(* The widgets inside their wrappers: mounting, loading, the daily timer   *)
(***************************************************************************)
\* Instances of one widget component that get mounted, and loads of one
\* widget that are pending at the same time.
MaxMounts == 2
MaxLoads == 2

\* scheduleDailyRefresh of a DealsWidget instance: the pending timeout.
\* `first` tells the one whose id the effect keeps for its cleanup from the
\* ones the timer callback schedules, whose ids are dropped.
scheduleDailyRefresh(instance, first) == [instance |-> instance, first |-> first]

\* WidgetWrapper renders its children only while the widget state carries
\* no error.  After a state change of widget w: a shown widget that is not
\* mounted mounts as a new instance, whose effect starts a load (and, for
\* DealsWidget, schedules the daily refresh); a hidden widget that is
\* mounted unmounts and its cleanup clears the timeout the effect returned.
\* started: the loads the step itself has started.
Reconcile(w, started) ==
  LET shown == ~Truthy(widgetStates'[w].error)
      mounts == shown /\ ~child[w].mounted
      unmounts == ~shown /\ child[w].mounted
      fresh == child[w].instance + 1
  IN /\ mounts => fresh <= MaxMounts
     /\ loads[w] + started + (IF mounts THEN 1 ELSE 0) <= MaxLoads
     /\ child' = [child EXCEPT ![w] =
                    IF mounts THEN [instance |-> fresh, mounted |-> TRUE]
                    ELSE IF unmounts THEN [@ EXCEPT !.mounted = FALSE]
                    ELSE @]
     /\ loads' = [loads EXCEPT ![w] = @ + started + (IF mounts THEN 1 ELSE 0)]
     /\ timers' = IF w # "deals-widget" THEN timers
                  ELSE IF mounts THEN timers \cup {scheduleDailyRefresh(fresh, TRUE)}
                  ELSE IF unmounts
                  THEN timers \ {scheduleDailyRefresh(child[w].instance, TRUE)}
                  ELSE timers

\* Dashboard mounts: the initializing effect sets the widget states, the
\* next render mounts a wrapper and a widget per enabled config, and each
\* widget's effect starts its first load (onLoadingChange(true) finds the
\* flag already set).
DashboardMounts ==
  /\ DOMAIN widgetStates = {}
  /\ widgetStates' = initializeWidgets(now)
  /\ boundary' = [w \in Rendered(widgetStates') |-> InitialBoundaryState]
  /\ child' = [w \in Rendered(widgetStates') |-> [instance |-> 1, mounted |-> TRUE]]
  /\ loads' = [w \in Rendered(widgetStates') |-> 1]
  /\ timers' = {scheduleDailyRefresh(1, TRUE)}
  /\ lastUi' = Ui("initializeWidgets", "", Null, <<"loadVideos", "loadDeals">>)
  /\ UNCHANGED <<pendingCatch, lastAuth, loggerVars, storeVars, retryVars>>

\* A pending loadVideos / loadDeals settles: on failure onError(error), and
\* in every case onLoadingChange(false).  The callbacks reach the Dashboard
\* whether or not the instance that started the load is still mounted.
LoadSettles(w, ok, error) ==
  /\ w \in DOMAIN loads
  /\ loads[w] > 0
  /\ widgetStates' =
       handleWidgetLoadingChange(
         IF ok THEN widgetStates ELSE handleWidgetError(widgetStates, w, error),
         w, FALSE)
  /\ Reconcile(w, -1)
  /\ lastUi' = IF ok
               THEN Ui("onLoadingChange", w, Null, <<"handleWidgetLoadingChange">>)
               ELSE Ui("onError", w, error,
                       <<"handleWidgetError", "handleWidgetLoadingChange">>)
  /\ UNCHANGED <<boundary, pendingCatch, lastAuth, loggerVars, storeVars, retryVars>>

\* The refresh button of the wrapper (disabled while loading), the Retry
\* button of its error display, or the Dashboard's refresh interval:
\* handleWidgetRetry, and nothing else.
RefreshRequested(w, source) ==
  /\ w \in DOMAIN widgetStates
  /\ source = "refresh" => ~widgetStates[w].isLoading
  /\ source = "inline retry" => Truthy(widgetStates[w].error)
  /\ widgetStates' = handleWidgetRetry(widgetStates, now, w)
  /\ Reconcile(w, 0)
  /\ lastUi' = Ui(source, w, Null, <<"handleWidgetRetry">>)
  /\ UNCHANGED <<boundary, pendingCatch, lastAuth, loggerVars, storeVars, retryVars>>

\* The refresh button inside a mounted widget that is not loading:
\* handleRefresh starts a load.
HandleRefresh(w) ==
  /\ w \in DOMAIN child
  /\ child[w].mounted
  /\ loads[w] = 0
  /\ widgetStates' = handleWidgetLoadingChange(widgetStates, w, TRUE)
  /\ Reconcile(w, 1)
  /\ lastUi' = Ui("handleRefresh", w, Null, <<"handleWidgetLoadingChange">>)
  /\ UNCHANGED <<boundary, pendingCatch, lastAuth, loggerVars, storeVars, retryVars>>

\* Midnight: a pending daily-refresh timeout fires, whether or not its
\* instance is still mounted.  The callback starts loadDeals and schedules
\* the next timeout, whose id nobody keeps.
DailyRefreshFires(t) ==
  /\ t \in timers
  /\ loads["deals-widget"] < MaxLoads
  /\ widgetStates' = handleWidgetLoadingChange(widgetStates, "deals-widget", TRUE)
  /\ loads' = [loads EXCEPT !["deals-widget"] = @ + 1]
  /\ timers' = (timers \ {t}) \cup {scheduleDailyRefresh(t.instance, FALSE)}
  /\ lastUi' = Ui("daily refresh", "deals-widget", Null,
                  <<"loadDeals", "scheduleDailyRefresh">>)
  /\ UNCHANGED <<child, boundary, pendingCatch, lastAuth, loggerVars, storeVars,
                 retryVars>>

\* No invocation has started, the backing store and the error history are
\* empty, and the dashboard has not mounted.
Init ==
  /\ pc = [i \in Invocations |-> "idle"]
  /\ maxRetries = [i \in Invocations |-> 0]
  /\ baseDelay = [i \in Invocations |-> 1]
  /\ attempt = [i \in Invocations |-> 0]
  /\ pending = [i \in Invocations |-> {}]
  /\ calls = [i \in Invocations |-> 0]
  /\ thrown = [i \in Invocations |-> <<>>]
  /\ delay = [i \in Invocations |-> 0]
  /\ elapsed = [i \in Invocations |-> 0]
  /\ outcome = [i \in Invocations |-> None]
  /\ consoleLog = [i \in Invocations |-> <<>>]
  /\ localStorage = [k \in {} |-> ""]
  /\ now = 0
  /\ lastCall = Called("none", "", Void)
  /\ lastSaved = [k \in {} |-> Null]
  /\ tokenSaved = [s \in {} |-> Null]
  /\ errorHistory = <<>>
  /\ logged = <<>>
  /\ recent = None
  /\ logCalls = 0
  /\ logResult = [op |-> "none", result |-> Void]
  /\ widgetStates = [w \in {} |-> Null]
  /\ boundary = [w \in {} |-> InitialBoundaryState]
  /\ pendingCatch = None
  /\ lastUi = Ui("none", "", Null, <<>>)
  /\ lastAuth = None
  /\ child = [w \in {} |-> 0]
  /\ loads = [w \in {} |-> 0]
  /\ timers = {}

NextStore ==
  \/ \E k \in GenericKeys, v \in SaveValues : Save(k, v)
  \/ \E k \in GenericKeys : Load(k)
  \/ \E k \in GenericKeys : Remove(k)
  \/ Clear
  \/ \E k \in GenericKeys, text \in CorruptTexts : Tamper(k, text)

NextToken ==
  \/ \E s \in Services, tk \in Tokens, l \in Lifetimes : SaveToken(s, tk, l)
  \/ \E s \in Services : GetToken(s)
  \/ \E s \in Services : IsTokenValid(s)
  \/ \E s \in Services : RemoveToken(s)
  \/ AdvanceClock
  \/ \E k \in TokenKeys, v \in {Null, DataObject} : Save(k, v)
  \/ \E k \in TokenKeys : Tamper(k, "{invalid}")
  \/ Clear

NextLogger ==
  \/ \E c \in LogCalls : LogError(c.message, c.context, MaxDrawnCalls)
  \/ GetRecentErrors
  \/ \E how \in {"length = 0", "push"} : MutateRecent(how)
  \/ ReleaseRecent
  \/ ClearErrorHistory

NextHistory ==
  \/ LogError("Error " \o ToString(logCalls + 1), Undefined, MaxLogCalls)
  \/ GetRecentErrors
  \/ \E how \in {"length = 0", "push"} : MutateRecent(how)
  \/ ReleaseRecent
  \/ ClearErrorHistory

NextBoundary ==
  \/ InitializeWidgets
  \/ \E w \in WidgetIds,
        e \in {ErrorOf("Cannot read properties of undefined"), ErrorOf("")} :
       ChildThrows(w, e)
  \/ DidCatch
  \/ \E b \in WidgetIds : RetryClicked(b)
  \/ \E w \in WidgetIds : ReportError(w, ErrorOf("Failed to load deals"))
  \/ \E w \in WidgetIds, l \in BOOLEAN : ReportLoading(w, l)
  \/ \E w \in WidgetIds, s \in {"refresh", "inline retry", "interval"} :
       WidgetRetry(w, s)

\* Tokens are saved with the default lifetime and API calls go through
\* withAuthErrorHandling.
NextAuth ==
  \/ \E s \in Services : SaveToken(s, "abc123", DefaultLifetime)
  \/ \E s \in Services, api \in ApiOutcomes : WithAuthErrorHandling(s, api)

\* The dashboard with its two enabled widgets.
NextLifecycle ==
  \/ DashboardMounts
  \/ \E w \in WidgetIds, ok \in BOOLEAN : LoadSettles(w, ok, ErrorOf("Network timeout"))
  \/ \E w \in WidgetIds, s \in {"refresh", "inline retry", "interval"} :
       RefreshRequested(w, s)
  \/ \E w \in WidgetIds : HandleRefresh(w)
  \/ \E t \in timers : DailyRefreshFires(t)

SpecRetry == Init /\ [][NextRetry]_vars

\* The event loop runs every ready continuation and fires every due timer;
\* a pending call of request() settles unless it hangs.
SpecRetryFair ==
  /\ SpecRetry
  /\ WF_vars(Tick)
  /\ \A i \in Invocations : WF_vars(SleepElapses(i))
  /\ \A i \in Invocations : WF_vars(RequestSucceeds(i) \/ RequestFails(i))

SpecStore == Init /\ [][NextStore]_vars

SpecToken == Init /\ [][NextToken]_vars

SpecLogger == Init /\ [][NextLogger]_vars

SpecHistory == Init /\ [][NextHistory]_vars

SpecBoundary == Init /\ [][NextBoundary]_vars

SpecAuth == Init /\ [][NextAuth]_vars

SpecLifecycle == Init /\ [][NextLifecycle]_vars

\* Pending fetches settle, due timeouts fire and the refresh interval
\* elapses; nobody has to press a button.
SpecLifecycleFair ==
  /\ SpecLifecycle
  /\ \A w \in WidgetIds :
       WF_vars(\E ok \in BOOLEAN : LoadSettles(w, ok, ErrorOf("Network timeout")))
  /\ \A w \in WidgetIds : WF_vars(RefreshRequested(w, "interval"))
  /\ WF_vars(\E t \in timers : DailyRefreshFires(t))

(***************************************************************************)
(* Properties of retryWithBackoff                                          *)
(***************************************************************************)
Last(s) == s[Len(s)]
Settled(i) == pc[i] \in {"resolved", "rejected"}

\* C1: with maxRetries >= 0, an invocation rejects only after request() was
\* invoked exactly maxRetries + 1 times and failed every time, and it rejects
\* with the very error of the last invocation; maxRetries + 1 failures always
\* end in that rejection, and request() is never invoked more often.
C1_ExhaustionRejectsWithLastError ==
  \A i \in Invocations :
    (pc[i] # "idle" /\ maxRetries[i] >= 0) =>
      /\ calls[i] <= maxRetries[i] + 1
      /\ (Len(thrown[i]) = maxRetries[i] + 1) <=> (pc[i] = "rejected")
      /\ pc[i] = "rejected" =>
            /\ calls[i] = maxRetries[i] + 1
            /\ outcome[i] = Last(thrown[i])
            /\ outcome[i] = RequestError(maxRetries[i] + 1)

C1_Witness ==
  \E i, j \in Invocations :
    /\ maxRetries[i] = 0 /\ pc[i] = "rejected" /\ calls[i] = 1
    /\ maxRetries[j] = MaxRetriesBound /\ pc[j] = "rejected"
    /\ calls[j] = MaxRetriesBound + 1

\* C2: an invocation whose request() failed k <= maxRetries times and then
\* succeeded has invoked it exactly k + 1 times and resolved with the value of
\* invocation k + 1; no call is ever made after a success, and a resolved
\* invocation calls nothing and schedules no wait any more.
C2_State ==
  \A i \in Invocations :
    /\ calls[i] <= Len(thrown[i]) + 1
    /\ pc[i] = "resolved" =>
          /\ Len(thrown[i]) <= maxRetries[i]
          /\ calls[i] = Len(thrown[i]) + 1
          /\ outcome[i] = RequestValue(Len(thrown[i]) + 1)
          /\ pending[i] = {}

C2_Step ==
  \A i \in Invocations :
    /\ pc[i] = "resolved" =>
          /\ pc'[i] = "resolved" /\ calls'[i] = calls[i]
          /\ delay'[i] = delay[i] /\ elapsed'[i] = elapsed[i]
          /\ outcome'[i] = outcome[i]
    /\ (pc[i] = "inflight" /\ pending'[i] = {} /\ thrown'[i] = thrown[i]) =>
          pc'[i] = "resolved"

C2_SuccessResolvesAtOnce == []C2_State /\ [][C2_Step]_vars

C2_Witness ==
  \E i \in Invocations :
    /\ pc[i] = "resolved" /\ Len(thrown[i]) = maxRetries[i]
    /\ maxRetries[i] = MaxRetriesBound

\* C3: request() is called for attempt 0 without any wait; every later call
\* is made only when the previous call has failed and the timer set to exactly
\* baseDelay * 2^n after that failure has run its full time; at most one call
\* of an invocation is pending at any time.
C3_State == \A i \in Invocations : Cardinality(pending[i]) <= 1

C3_Step ==
  \A i \in Invocations :
    calls'[i] # calls[i] =>
      /\ calls'[i] = calls[i] + 1
      /\ pending[i] = {}
      /\ attempt'[i] = calls[i]
      /\ \/ pc[i] = "idle" /\ calls[i] = 0
         \/ /\ pc[i] = "sleeping"
            /\ Len(thrown[i]) = calls[i]
            /\ delay[i] = baseDelay[i] * Pow2(calls[i] - 1)
            /\ elapsed[i] >= delay[i]

C3_AttemptsSequentialWithExactDelay == []C3_State /\ [][C3_Step]_vars

C3_Witness ==
  \E i \in Invocations :
    /\ calls[i] = 4 /\ pc[i] = "inflight"
    /\ delay[i] = baseDelay[i] * 4 /\ baseDelay[i] = MaxBaseDelay

\* C4 as stated: every failed attempt leaves exactly one entry in the history
\* of the shared logger of errorLogger.ts, carrying the index of the failed
\* attempt and, unless it was the terminal one, the next delay.
C4_Original ==
  \A i \in Invocations : \A n \in 1..Len(thrown[i]) :
    \E k \in 1..Len(errorHistory) :
      /\ errorHistory[k].context.attempt = n - 1
      /\ errorHistory[k].context.maxRetries = maxRetries[i]

\* C4 amended: every failed attempt, the terminal one included, produces
\* exactly one report through the logError local to retryWithBackoff.ts
\* (console.error), and nothing in the shared history; the report of the
\* retried failure of attempt n carries attempt = n + 1 and the next delay
\* baseDelay * 2^n, the report of the terminal failure carries
\* attempt = maxRetries and the error itself.
C4_LocalReportPerFailure ==
  \A i \in Invocations :
    /\ Len(consoleLog[i]) = Len(thrown[i])
    /\ errorHistory = <<>>
    /\ \A n \in 1..Len(thrown[i]) :
         LET c == consoleLog[i][n].context
         IN IF n = maxRetries[i] + 1
            THEN /\ c.attempt = n - 1
                 /\ c.error = thrown[i][n]
                 /\ consoleLog[i][n].message = "[RetryWithBackoff] Max retries exceeded"
            ELSE /\ c.attempt = n
                 /\ c.nextRetryIn = ToString(baseDelay[i] * Pow2(n - 1)) \o "ms"
                 /\ c.error = thrown[i][n].message
                 /\ consoleLog[i][n].message = "[RetryWithBackoff] Request failed, retrying..."

C4_Witness ==
  \E i \in Invocations :
    /\ pc[i] = "rejected" /\ maxRetries[i] = MaxRetriesBound
    /\ Len(consoleLog[i]) = MaxRetriesBound + 1

\* C5: request() is never invoked more than maxRetries + 1 times; when every
\* call settles and every timer fires the invocation settles; once a call
\* hangs the invocation stays unsettled and starts no further attempt.
C5_Bound ==
  \A i \in Invocations :
    pc[i] # "idle" => (calls[i] <= maxRetries[i] + 1 /\ calls[i] <= attempt[i] + 1)

C5_HungStep ==
  \A i \in Invocations :
    pc[i] = "hung" =>
      (pc'[i] = "hung" /\ calls'[i] = calls[i] /\ outcome'[i] = None)

C5_SettlesUnlessHung ==
  /\ []C5_Bound
  /\ [][C5_HungStep]_vars
  /\ \A i \in Invocations :
       [](pc[i] # "idle" => <>(Settled(i) \/ pc[i] = "hung"))

C5_Witness ==
  \E i, j \in Invocations :
    /\ pc[i] = "hung" /\ calls[i] = 2 /\ outcome[i] = None
    /\ pc[j] = "rejected" /\ maxRetries[j] = MaxRetriesBound

(***************************************************************************)
(* Properties of LocalStorageService                                       *)
(***************************************************************************)
\* What a JSON round trip makes of a serializable value: a Date comes back
\* as its ISO string, NaN as null, everything else as itself.
Serializable(v) == v.t \notin {"undefined", "circular", "bigint"}
SerializedForm(v) ==
  CASE v.t = "Date" -> Str(IsoString(v.ms))
    [] v.t = "NaN" -> Null
    [] OTHER -> v

\* C6: as long as no other write to key k follows a successful save(k, v) of
\* a JSON-serializable v (k may be the empty string), load(k) returns the
\* serialized form of the v saved last.
C6_RoundTripLastWriteWins ==
  \A k \in DOMAIN lastSaved :
    Serializable(lastSaved[k]) =>
      /\ load(localStorage, k) = Return(SerializedForm(lastSaved[k]))
      /\ (lastCall.op = "load" /\ lastCall.arg = k) =>
            lastCall.result = Return(SerializedForm(lastSaved[k]))

C6_Witness ==
  /\ lastCall.op = "load" /\ lastCall.arg = ""
  /\ "" \in DOMAIN lastSaved /\ lastSaved[""] = DateOf(5)
  /\ lastCall.result = Return(Str(IsoString(5)))
  /\ "task_1" \in DOMAIN lastSaved /\ lastSaved["task_1"] = DataObject

\* The texts of this model that are not JSON.
UnparseableTexts == CorruptTexts \cup {"{invalid}", "undefined"}
LoadFailure == <<"Failed to load from localStorage: ">>

\* C7 as stated: load(k) returns null exactly when no entry exists under k,
\* and throws whenever the entry under k is unparseable.
C7_Original ==
  lastCall.op = "load" =>
    /\ (lastCall.result = Return(Null)) <=> (lastCall.arg \notin DOMAIN localStorage)
    /\ (lastCall.arg \in DOMAIN localStorage
        /\ localStorage[lastCall.arg] \in UnparseableTexts) =>
          lastCall.result.kind = "throw"

\* C7 amended: load(k) returns null when no entry exists under k and throws a
\* deserialization error exactly when an entry exists whose text is not
\* parseable; besides the absent key, only an entry whose text is the JSON
\* literal null loads as null.
C7_AbsentNullCorruptedThrows ==
  lastCall.op = "load" =>
    LET k == lastCall.arg
        r == lastCall.result
    IN /\ k \notin DOMAIN localStorage => r = Return(Null)
       /\ (r.kind = "throw") <=>
            (k \in DOMAIN localStorage /\ localStorage[k] \in UnparseableTexts)
       /\ r.kind = "throw" =>
            (r.name = "Error" /\ SubSeq(r.message, 1, 1) = LoadFailure)
       /\ r = Return(Null) =>
            (k \notin DOMAIN localStorage \/ localStorage[k] = "null")

C7_Witness ==
  /\ lastCall.op = "load" /\ lastCall.result.kind = "throw"
  /\ lastCall.arg \in DOMAIN localStorage
  /\ localStorage[lastCall.arg] \in CorruptTexts

\* C8 as stated: a failing save throws an error whose message names the key,
\* for the quota failure and for every other failure alike.
C8_Original ==
  (lastCall.op = "save" /\ lastCall.result.kind = "throw") =>
    \E n \in 2..Len(lastCall.result.message) :
      lastCall.result.message[n] = lastCall.arg

\* C9: remove(k) and clear() return normally; after remove(k) load(k) is
\* null, after clear() every load is null; repeating either changes nothing.
C9_State ==
  /\ lastCall.op = "remove" =>
       /\ lastCall.result = Void
       /\ lastCall.arg \notin DOMAIN localStorage
       /\ load(localStorage, lastCall.arg) = Return(Null)
  /\ lastCall.op = "clear" =>
       /\ lastCall.result = Void
       /\ \A k \in Keys : load(localStorage, k) = Return(Null)

C9_Step ==
  /\ (lastCall.op = "remove" /\ lastCall' = lastCall) => localStorage' = localStorage
  /\ (lastCall.op = "clear" /\ lastCall' = lastCall) => localStorage' = localStorage
  /\ \A k \in Keys :
       (lastCall'.op = "remove" /\ k # lastCall'.arg) =>
          getItem(localStorage', k) = getItem(localStorage, k)

C9_RemoveClearIdempotent == []C9_State /\ [][C9_Step]_vars

C9_Witness ==
  /\ lastCall.op = "remove" /\ lastCall.arg = ""
  /\ DOMAIN localStorage = {"task_1"}

(***************************************************************************)
(* Properties of AuthTokenStore                                            *)
(***************************************************************************)
\* C10: while the record of saveToken(service, token, l) with l in 60..7200
\* is the last write under the service's key and the clock has not reached
\* its expiry, getToken returns that token and isTokenValid returns true; the
\* stored record carries the token and the expiry of the latest saveToken.
C10_TokenRoundTrip ==
  \A s \in DOMAIN tokenSaved :
    LET ts == tokenSaved[s]
        expiresAt == ts.savedAt + ts.lifetime * 1000
    IN (ts.lifetime \in 60..7200 /\ now < expiresAt) =>
         /\ getToken(localStorage, now, s).result = Return(Str(ts.token))
         /\ isTokenValid(localStorage, now, s).result = Return(Bool(TRUE))
         /\ load(localStorage, getKey(s)) = Return(TokenData(ts.token, expiresAt))
         /\ (lastCall.op = "getToken" /\ lastCall.arg = s) =>
               lastCall.result = Return(Str(ts.token))
         /\ (lastCall.op = "isTokenValid" /\ lastCall.arg = s) =>
               lastCall.result = Return(Bool(TRUE))

C10_Witness ==
  /\ lastCall.op = "isTokenValid" /\ lastCall.arg = ""
  /\ lastCall.result = Return(Bool(TRUE))
  /\ "" \in DOMAIN tokenSaved
  /\ tokenSaved[""].lifetime = 60 /\ tokenSaved[""].savedAt = ClockStep
  /\ now = 2 * ClockStep
  /\ "google" \in DOMAIN tokenSaved /\ tokenSaved["google"].token # tokenSaved[""].token

\* C11: a record saved at clock t with lifetime l (any integer) and not
\* overwritten or removed since yields its token / true exactly while
\* now < t + l * 1000; from then on getToken is null and isTokenValid false,
\* the call leaves no entry under the service's key, and later calls return
\* null without an error.
C11_ValidIffBeforeExpiry ==
  \A s \in DOMAIN tokenSaved :
    LET ts == tokenSaved[s]
        expiresAt == ts.savedAt + ts.lifetime * 1000
        got == getToken(localStorage, now, s)
        valid == isTokenValid(localStorage, now, s)
    IN /\ (got.result = Return(Str(ts.token))) <=> (now < expiresAt)
       /\ (valid.result = Return(Bool(TRUE))) <=> (now < expiresAt)
       /\ now >= expiresAt =>
            /\ got.result = Return(Null)
            /\ valid.result = Return(Bool(FALSE))
            /\ getKey(s) \notin DOMAIN got.store
            /\ getKey(s) \notin DOMAIN valid.store
            /\ getToken(got.store, now, s).result = Return(Null)
       /\ (lastCall.op = "getToken" /\ lastCall.arg = s) =>
            /\ lastCall.result =
                 (IF now < expiresAt THEN Return(Str(ts.token)) ELSE Return(Null))
            /\ now >= expiresAt => getKey(s) \notin DOMAIN localStorage
       /\ (lastCall.op = "isTokenValid" /\ lastCall.arg = s) =>
            /\ lastCall.result = Return(Bool(now < expiresAt))
            /\ now >= expiresAt => getKey(s) \notin DOMAIN localStorage

C11_Witness ==
  /\ lastCall.op = "getToken" /\ lastCall.arg = "google"
  /\ lastCall.result = Return(Null)
  /\ "google" \in DOMAIN tokenSaved
  /\ tokenSaved["google"].lifetime = 60
  /\ now = tokenSaved["google"].savedAt + 60 * 1000
  /\ getKey("google") \notin DOMAIN localStorage
  /\ "" \in DOMAIN tokenSaved /\ tokenSaved[""].lifetime = 0

\* The only token operations: each names its service in lastCall.arg.
TokenOps == {"saveToken", "getToken", "isTokenValid", "removeToken"}
Only(store, key) == [k \in DOMAIN store \cap {key} |-> store[k]]

\* C12: a saveToken, removeToken, getToken or isTokenValid on service s1
\* (eviction of s1 included) changes neither the entry nor the getToken
\* result of any other service s2; getToken(s2) reads nothing but the entry
\* under "auth_token_" + s2, which is where saveToken(s2) writes.
C12_State ==
  /\ \A s \in Services :
       getToken(localStorage, now, s).result =
         getToken(Only(localStorage, "auth_token_" \o s), now, s).result
  /\ (lastCall.op = "saveToken" /\ lastCall.result.kind = "return") =>
       /\ ("auth_token_" \o lastCall.arg) \in DOMAIN localStorage
       /\ load(localStorage, "auth_token_" \o lastCall.arg).value.token
            = tokenSaved[lastCall.arg].token

C12_Step ==
  \A s1, s2 \in Services :
    (s1 # s2 /\ lastCall'.op \in TokenOps /\ lastCall'.arg = s1) =>
      /\ getItem(localStorage', "auth_token_" \o s2)
           = getItem(localStorage, "auth_token_" \o s2)
      /\ getToken(localStorage', now', s2).result
           = getToken(localStorage, now, s2).result

C12_ServicesDoNotInterfere == []C12_State /\ [][C12_Step]_vars

C12_Witness ==
  /\ lastCall.op = "removeToken" /\ lastCall.arg = ""
  /\ "google" \in DOMAIN tokenSaved
  /\ getToken(localStorage, now, "google").result
       = Return(Str(tokenSaved["google"].token))
  /\ getToken(localStorage, now, "").result = Return(Null)

QuotaFailure(key) ==
  Throw("Error", <<"Storage quota exceeded while saving key: ", key>>)

\* C13: a failing saveToken throws the error of save() and leaves the store
\* as it was; getToken and isTokenValid throw the error of load() whenever the
\* text under the service's key is unparseable.
C13_State ==
  /\ (lastCall.op = "saveToken" /\ lastCall.result.kind = "throw") =>
       lastCall.result = QuotaFailure(getKey(lastCall.arg))
  /\ \A s \in Services :
       (getKey(s) \in DOMAIN localStorage
        /\ localStorage[getKey(s)] \in UnparseableTexts) =>
          /\ load(localStorage, getKey(s)).kind = "throw"
          /\ getToken(localStorage, now, s).result = load(localStorage, getKey(s))
          /\ isTokenValid(localStorage, now, s).result = load(localStorage, getKey(s))
          /\ (lastCall.op \in {"getToken", "isTokenValid"} /\ lastCall.arg = s) =>
                /\ lastCall.result.kind = "throw"
                /\ SubSeq(lastCall.result.message, 1, 1) = LoadFailure

C13_Step ==
  (lastCall'.op = "saveToken" /\ lastCall'.result.kind = "throw") =>
    /\ localStorage' = localStorage
    /\ \A s \in Services :
         getToken(localStorage', now', s).result = getToken(localStorage, now, s).result

C13_StoreFailuresPropagate == []C13_State /\ [][C13_Step]_vars

C13_Witness ==
  /\ lastCall.op = "isTokenValid" /\ lastCall.result.kind = "throw"
  /\ localStorage[getKey(lastCall.arg)] = "{invalid}"

(***************************************************************************)
(* Properties of the widget error boundary                                 *)
(***************************************************************************)
Healthy(state) == ~state.hasError /\ state.error = Null
FailedWith(state, error) == state.hasError /\ state.error = error
\* The step just taken ran the handler op for the widget.
UiStep(op, widgetId) == lastUi'.op = op /\ lastUi'.widget = widgetId
BecomesFailed(b) ==
  /\ b \in DOMAIN boundary /\ b \in DOMAIN boundary'
  /\ ~boundary[b].hasError
  /\ boundary'[b].hasError

\* C14 as stated: a boundary starts Healthy; it moves to Failed, with the
\* error set, whenever a child throws during render or an async callback of
\* its widget reports a failure; nothing else moves it to Failed.
C14_OriginalStep ==
  \A b \in DOMAIN boundary' :
    /\ b \notin DOMAIN boundary => Healthy(boundary'[b])
    /\ UiStep("getDerivedStateFromError", b) =>
         FailedWith(boundary'[b], lastUi'.error)
    /\ UiStep("onError", b) => FailedWith(boundary'[b], lastUi'.error)
    /\ BecomesFailed(b) =>
         UiStep("getDerivedStateFromError", b) \/ UiStep("onError", b)
C14_Original == [][C14_OriginalStep]_vars

\* C14, amended: a boundary starts Healthy; it moves to Failed, with error
\* set to the caught error, whenever a child throws during render; a failure
\* reported by an async callback of the widget leaves every boundary as it
\* is and sets the error of that widget in the state of the Dashboard;
\* nothing else moves a boundary to Failed.
C14_Step ==
  /\ \A b \in DOMAIN boundary' :
       /\ b \notin DOMAIN boundary => Healthy(boundary'[b])
       /\ UiStep("getDerivedStateFromError", b) =>
            FailedWith(boundary'[b], lastUi'.error)
       /\ BecomesFailed(b) => UiStep("getDerivedStateFromError", b)
  /\ lastUi'.op = "onError" =>
       /\ boundary' = boundary
       /\ lastUi'.widget \in DOMAIN widgetStates' =>
            widgetStates'[lastUi'.widget].error = lastUi'.error
C14_FailedOnlyByRenderThrow == [][C14_Step]_vars
\* One widget has reported a fetch failure and its boundary is Healthy,
\* while the other boundary has caught a render error.
C14_Witness ==
  /\ lastUi.op = "onError" /\ lastUi.widget = "youtube-widget"
  /\ Healthy(boundary["youtube-widget"])
  /\ Truthy(widgetStates["youtube-widget"].error)
  /\ FailedWith(boundary["deals-widget"],
                ErrorOf("Cannot read properties of undefined"))

ResetState == [hasError |-> FALSE, error |-> Null, errorInfo |-> Null]
C16_Step ==
  \A b \in DOMAIN boundary :
    UiStep("handleRetry", b) =>
      /\ boundary[b].hasError
      /\ boundary'[b] = ResetState
      /\ lastUi'.effects = <<"setState", "onRetry">>
      /\ widgetStates' = handleWidgetRetry(widgetStates, now, b)
C16_NoCallback ==
  \A b \in DOMAIN boundary :
    boundary[b].hasError =>
      handleRetry(boundary[b], [BoundaryProps(b) EXCEPT !.onRetry = FALSE])
        = [state |-> ResetState, effects |-> <<"setState">>]
C16_RetryResetsThenCallsBack == []C16_NoCallback /\ [][C16_Step]_vars
\* A Failed boundary has just been retried: it is Healthy and the
\* Dashboard's retry handler has run once for its widget.
C16_Witness ==
  /\ lastUi.op = "handleRetry" /\ lastUi.widget = "deals-widget"
  /\ lastUi.effects = <<"setState", "onRetry">>
  /\ boundary["deals-widget"] = ResetState
  /\ widgetStates["deals-widget"].isLoading
  /\ Len(errorHistory) = 1

\* C17: boundaries are isolated.  A child failure or a retry on one
\* boundary leaves the state and the rendered output of every other
\* boundary unchanged, and every widget the Dashboard renders is inside a
\* boundary of its own, no two widgets inside the same one.
BoundarySteps == {"getDerivedStateFromError", "componentDidCatch", "handleRetry"}
C17_Step ==
  \A b1 \in DOMAIN boundary, b2 \in DOMAIN boundary :
    (b1 # b2 /\ lastUi'.op \in BoundarySteps /\ lastUi'.widget = b1) =>
      /\ boundary'[b2] = boundary[b2]
      /\ BoundaryOutput(b2)' = BoundaryOutput(b2)
C17_OwnBoundary ==
  /\ DOMAIN boundary = Rendered(widgetStates)
  /\ \A w \in Rendered(widgetStates) :
       /\ EnclosingBoundary(w) \in DOMAIN boundary
       /\ BoundaryProps(EnclosingBoundary(w)).widgetId = w
       /\ \A v \in Rendered(widgetStates) :
            v # w => EnclosingBoundary(v) # EnclosingBoundary(w)
C17_BoundariesIsolated == []C17_OwnBoundary /\ [][C17_Step]_vars
\* One boundary has failed, been retried and failed again, while the other
\* is Healthy and renders its widget.
C17_Witness ==
  /\ lastUi.op = "componentDidCatch" /\ lastUi.widget = "deals-widget"
  /\ Len(errorHistory) = 2
  /\ \A k \in 1..2 :
       errorHistory[k].context.fields.widgetId = Str("deals-widget")
  /\ boundary["deals-widget"].hasError
  /\ Healthy(boundary["youtube-widget"])
  /\ BoundaryOutput("youtube-widget").view = "article"
  /\ BoundaryOutput("youtube-widget").body

\* The log entry of the last logError call carries the tags of boundary b.
TaggedFor(record, b) ==
  /\ record.message = "Widget Error"
  /\ Prop(record.context, "widgetId") = Str(b)
  /\ Prop(record.context, "widgetTitle") = Str(ConfigOf(b).title)
  /\ Prop(record.entry.context, "widgetId") = Str(b)
  /\ Prop(record.entry.context, "widgetTitle") = Str(ConfigOf(b).title)

\* C18 as stated: every transition into Failed makes exactly one logError
\* call tagged with the widgetId and the widgetTitle of the boundary, and
\* the call has been made when the fallback of that failure is rendered.
C18_OriginalStep ==
  /\ \A b \in DOMAIN boundary :
       BecomesFailed(b) =>
         /\ Len(logged') = Len(logged) + 1
         /\ TaggedFor(logged'[Len(logged')], b)
  /\ logged' # logged => \E b \in DOMAIN boundary : BecomesFailed(b)
C18_Original == [][C18_OriginalStep]_vars

\* C18, amended: every transition into Failed makes exactly one logError
\* call tagged with the widgetId and the widgetTitle of the boundary.  The
\* call is made by componentDidCatch, which is the next thing to run after
\* getDerivedStateFromError has moved the boundary to Failed and the
\* fallback has been rendered; nothing else logs.
C18_Step ==
  /\ \A b \in DOMAIN boundary :
       BecomesFailed(b) =>
         /\ logged' = logged
         /\ pendingCatch = None
         /\ pendingCatch' # None /\ pendingCatch'.boundary = b
         /\ BoundaryOutput(b)'.view = "fallback"
  /\ pendingCatch # None =>
       /\ UiStep("componentDidCatch", pendingCatch.boundary)
       /\ boundary'[pendingCatch.boundary].hasError
       /\ logCalls' = logCalls + 1
       /\ logged' = Append(logged, logged'[Len(logged')])
       /\ TaggedFor(logged'[Len(logged')], pendingCatch.boundary)
       /\ pendingCatch' = None
  /\ (logged' # logged \/ logCalls' # logCalls) => pendingCatch # None
C18_OneTaggedLogPerFailure == [][C18_Step]_vars
\* A boundary has failed, been retried and failed again, the second
\* failure is caught and not yet committed: one entry so far; and the state
\* after the commit, with two entries, is C17_Witness.
C18_Witness ==
  /\ pendingCatch # None /\ pendingCatch.boundary = "deals-widget"
  /\ BoundaryOutput("deals-widget").view = "fallback"
  /\ Len(logged) = 1
  /\ logged[1].entry.context.fields.widgetId = Str("deals-widget")
  /\ logged[1].entry.category = ErrorCategory.WIDGET

(***************************************************************************)
(* Properties of the error logger                                          *)
(***************************************************************************)
\* The sensitive key names of the claim: any case, with or without the
\* separators -, _ and space.
ClaimedSensitiveWords ==
  {"token", "password", "secret", "apikey", "authorization", "creditcard",
   "ssn", "pin"}
ClaimedSensitive(key) ==
  \E word \in ClaimedSensitiveWords :
    includes(StripSeparators(toLowerCase(key)), word)

\* Every entry of raw under a claimed sensitive key, at any depth, is kept
\* with the marker as its value and not with its own value.
RECURSIVE KeysRedacted(_, _)
KeysRedacted(raw, kept) ==
  CASE raw.t = "map" ->
         /\ kept.t = "map"
         /\ DOMAIN kept.fields = DOMAIN raw.fields
         /\ \A key \in DOMAIN raw.fields :
              IF ClaimedSensitive(key)
              THEN /\ kept.fields[key] = Str("[REDACTED]")
                   /\ kept.fields[key] # raw.fields[key]
              ELSE KeysRedacted(raw.fields[key], kept.fields[key])
    [] raw.t = "array" ->
         /\ kept.t = "array"
         /\ Len(kept.items) = Len(raw.items)
         /\ \A n \in 1..Len(raw.items) :
              KeysRedacted(raw.items[n], kept.items[n])
    [] OTHER -> TRUE

\* u looks like a bearer token: the word bearer in any case, white space,
\* and a token without white space or &.
BearerLike(u) ==
  /\ Len(u) >= 8
  /\ toLowerCase(SubSeq(u, 1, 6)) = "bearer"
  /\ \E j \in 8..Len(u) :
       /\ \A k \in 7..(j - 1) : CharAt(u, k) \in {" ", "\t", "\n", "\r"}
       /\ \A k \in j..Len(u) :
            CharAt(u, k) \notin {" ", "\t", "\n", "\r", "&"}
BearerSubstrings(message) ==
  {u \in {SubSeq(message, i, j) : i \in 1..Len(message), j \in 1..Len(message)} :
     BearerLike(u)}

C20_State ==
  LET n == Len(logged)
      m == IF n > 50 THEN 50 ELSE n
  IN /\ Len(errorHistory) = m
     /\ \A k \in 1..m : errorHistory[k] = logged[n - m + k].entry
C20_Step ==
  /\ (logResult'.op = "logError" /\ Len(errorHistory) = 50) =>
       /\ Len(errorHistory') = 50
       /\ \A k \in 1..49 : errorHistory'[k] = errorHistory[k + 1]
       /\ errorHistory'[50].message = "Error " \o ToString(logCalls')
  /\ logResult'.op = "clearErrorHistory" => errorHistory' = <<>>
  /\ logResult'.op = "getRecentErrors" =>
       /\ recent'.items = errorHistory
       /\ errorHistory' = errorHistory
  /\ logResult'.op = "mutate" => errorHistory' = errorHistory
C20_BoundedHistory == []C20_State /\ [][C20_Step]_vars
\* 51 entries have been logged: the first one is gone, and the caller has
\* emptied the copy it got.
C20_Witness ==
  /\ Len(logged) = 51
  /\ Len(errorHistory) = 50
  /\ errorHistory[1].message = "Error 2"
  /\ errorHistory[50].message = "Error 51"
  /\ recent # None
  /\ recent.items = <<>>

(***************************************************************************)
(* Properties of errorLogger.ts: failures and categories                   *)
(***************************************************************************)
\* What one call of logError has to do.
C21_OriginalStep ==
  (logResult'.op = "logError" /\ logCalls' = logCalls + 1) =>
    /\ logResult'.result = Void
    /\ Len(logged') = Len(logged) + 1
    /\ Len(errorHistory') = Len(errorHistory) + 1
\* C21 as stated: logError never throws; every call, whatever the message and
\* the context, returns normally and adds exactly one entry to the history.
C21_Original == [][C21_OriginalStep]_vars

\* The texts of a logError call: its message and, when the context holds an
\* error with a string message, that message.
TextsOf(record) ==
  LET message == Prop(Prop(ContextOf(record.context), "error"), "message")
  IN {record.message} \cup (IF message.t = "string" THEN {message.s} ELSE {})

\* C22 as stated: the category of every entry is the classification of its
\* text and its context (keywords in the order network, authentication,
\* validation, storage, then widgetId, then unknown), with or without an
\* error object in the context.
C22_Original ==
  \A n \in 1..Len(logged) :
    logged[n].entry.category \in
      {categorizeError(ErrorOf(text), CleanContext(logged[n].context)).value :
         text \in TextsOf(logged[n])}

(***************************************************************************)
(* Properties of withAuthErrorHandling                                     *)
(***************************************************************************)
\* The authentication signals the claim names: status 401 or 403, or a
\* message that contains one of four words.
AuthSignal(error) ==
  LET text == Prop(error, "message")
      message == IF text.t = "string" THEN toLowerCase(text.s) ELSE ""
  IN \/ Prop(Prop(error, "response"), "status") \in {Num(401), Num(403)}
     \/ \E word \in {"unauthorized", "authentication", "token", "expired"} :
          includes(message, word)

\* What one call of withAuthErrorHandling has to do.
C23_OriginalStep ==
  (lastAuth' # None /\ (lastAuth' # lastAuth \/ logCalls' # logCalls)) =>
    LET service == lastAuth'.service
        api == lastAuth'.api
        result == lastAuth'.result
    IN IF api.kind = "rejected" /\ AuthSignal(api.error)
       THEN /\ getToken(localStorage', now', service).result = Return(Null)
            /\ result.kind = "rejected"
            /\ result.error.t = "AuthenticationError"
            /\ result.error.serviceName = service
       ELSE /\ result = api
            /\ Only(localStorage', getKey(service))
                 = Only(localStorage, getKey(service))
\* C23 as stated: after a failure with an authentication signal the token of
\* the service is gone and the rejection is an AuthenticationError naming the
\* service; any other failure is rethrown unchanged and a success is
\* returned, both with the token record unchanged.
C23_Original == [][C23_OriginalStep]_vars

(***************************************************************************)
(* Properties of concurrent retryWithBackoff invocations                   *)
(***************************************************************************)
\* What belongs to invocation i: its parameters, its locals, its pending
\* calls, its outcome and its reports.
OwnState(i) ==
  <<pc[i], maxRetries[i], baseDelay[i], attempt[i], pending[i], calls[i],
    thrown[i], delay[i], outcome[i], consoleLog[i]>>

\* A step that changes what belongs to one invocation leaves everything of
\* the other invocations alone, its running timer included.
C24_Step ==
  \A i \in Invocations : \A j \in Invocations \ {i} :
    OwnState(j)' # OwnState(j) =>
      OwnState(i)' = OwnState(i) /\ elapsed'[i] = elapsed[i]

\* As if it ran alone: the attempts, the delays and the outcome of an
\* invocation are determined by its own parameters and by how many of its
\* own calls of request() failed.
C24_State ==
  \A i \in Invocations :
    LET failures == Len(thrown[i])
        retried == IF pc[i] = "rejected" /\ maxRetries[i] >= 0
                   THEN failures - 1 ELSE failures
    IN /\ thrown[i] = [k \in 1..failures |-> RequestError(k)]
       /\ calls[i] \in {failures, failures + 1}
       /\ calls[i] <= Max({0, maxRetries[i] + 1})
       /\ attempt[i] \in {retried, retried - 1}
       /\ Len(consoleLog[i]) = failures
       /\ \A k \in 1..retried :
            consoleLog[i][k].context.nextRetryIn
              = ToString(baseDelay[i] * Pow2(k - 1)) \o "ms"
       /\ pc[i] = "sleeping" => delay[i] = baseDelay[i] * Pow2(failures - 1)
       /\ pc[i] = "resolved" => outcome[i] = RequestValue(failures + 1)
       /\ pc[i] = "rejected" =>
            outcome[i] = IF maxRetries[i] < 0 THEN MaxRetriesExceededError
                         ELSE RequestError(maxRetries[i] + 1)

\* C24: two retryWithBackoff invocations that interleave share no state; the
\* attempts, the delays and the outcome of each are those it has alone.
C24_InvocationsIndependent == []C24_State /\ [][C24_Step]_vars

\* Both invocations ran interleaved and ended differently: one resolved on
\* its second call while the other, started before it ended, exhausted its
\* three calls.
C24_Witness ==
  /\ pc["w1"] = "resolved" /\ calls["w1"] = 2 /\ baseDelay["w1"] = 2
  /\ pc["w2"] = "rejected" /\ calls["w2"] = 3 /\ baseDelay["w2"] = 1
  /\ delay["w1"] = 2 /\ delay["w2"] = 2

(***************************************************************************)
(* Properties of the widget state map of the Dashboard                     *)
(***************************************************************************)
\* The handlers that run handleWidgetLoadingChange, handleWidgetError or
\* handleWidgetRetry for the widget named in lastUi.
MapHandlers ==
  {"onLoadingChange", "onError", "refresh", "inline retry", "interval",
   "handleRetry"}

\* A loading change, an error report or a retry for a widget leaves the
\* entries of the other widgets, and the set of entries, as they were.
C25_Step ==
  (lastUi'.op \in MapHandlers /\ widgetStates' # widgetStates) =>
    /\ DOMAIN widgetStates' = DOMAIN widgetStates
    /\ \A other \in DOMAIN widgetStates \ {lastUi'.widget} :
         widgetStates'[other] = widgetStates[other]

\* An event for a widget id without an entry changes nothing.
C25_NoEntry ==
  \A w \in WidgetIds \ DOMAIN widgetStates :
    /\ \A isLoading \in BOOLEAN :
         handleWidgetLoadingChange(widgetStates, w, isLoading) = widgetStates
    /\ handleWidgetError(widgetStates, w, ErrorOf("Failed to load deals"))
         = widgetStates
    /\ handleWidgetRetry(widgetStates, now, w) = widgetStates

\* C25: an event for widget w changes only the entry of w in the state map,
\* in every interleaving; an event for an id without an entry changes nothing.
C25_OnlyOwnEntry == []C25_NoEntry /\ [][C25_Step]_vars

\* The YouTube widget has just reported an error after the deals widget had
\* finished loading: the two entries differ in every changeable field but
\* lastRefresh, and three configured ids have no entry.
C25_Witness ==
  /\ lastUi.op = "onError" /\ lastUi.widget = "youtube-widget"
  /\ DOMAIN widgetStates = {"youtube-widget", "deals-widget"}
  /\ Truthy(widgetStates["youtube-widget"].error)
  /\ widgetStates["deals-widget"]
       = [isLoading |-> FALSE, error |-> Null, lastRefresh |-> DateOf(0)]
  /\ Cardinality(WidgetIds \ DOMAIN widgetStates) = 3

(***************************************************************************)
(* What getToken hands out for any parseable entry                         *)
(***************************************************************************)
\* The record of saveToken(service, ...) that is in force and unexpired.
SavedUnexpired(service) ==
  /\ service \in DOMAIN tokenSaved
  /\ now < tokenSaved[service].savedAt + tokenSaved[service].lifetime * 1000

\* What one call of getToken or isTokenValid has to return.
C26_OriginalStep ==
  \A s \in Services :
    /\ (GetToken(s) /\ lastCall'.result.kind = "return") =>
          \/ lastCall'.result.value = Null
          \/ /\ SavedUnexpired(s)
             /\ lastCall'.result.value = Str(tokenSaved[s].token)
    /\ (IsTokenValid(s) /\ lastCall'.result = Return(Bool(TRUE))) =>
          SavedUnexpired(s)
\* C26: a getToken(service) that returns gives null or the string of an
\* unexpired saveToken(service, ...) record, and isTokenValid(service) is
\* true only in the second case, whatever parseable value lies under the
\* service's key.
C26_Original == [][C26_OriginalStep]_vars

(***************************************************************************)
(* A successful save leaves a loadable entry                               *)
(***************************************************************************)
\* C27: right after save(k, v) has returned without error, for any value v
\* (undefined included), load(k) does not throw a deserialization error.
C27_Original ==
  (lastCall.op = "save" /\ lastCall.result.kind = "return") =>
    load(localStorage, lastCall.arg).kind # "throw"

(***************************************************************************)
(* The trailing throw of retryWithBackoff                                  *)
(***************************************************************************)
\* C28: for every integer maxRetries, negative ones included, a rejected
\* invocation has called request() at least once and rejects with an error
\* that request() threw; the throw after the loop is never reached.
C28_Original ==
  \A i \in Invocations :
    pc[i] = "rejected" =>
      /\ calls[i] >= 1
      /\ \E n \in 1..Len(thrown[i]) : outcome[i] = thrown[i][n]
      /\ outcome[i] # MaxRetriesExceededError

(***************************************************************************)
(* Refreshing a widget and its daily timer                                 *)
(***************************************************************************)
\* handleWidgetRetry has just set the loading flag of widget w.
Loading(w) == w \in DOMAIN widgetStates /\ widgetStates[w].isLoading
RetrySetLoading(w) ==
  /\ lastUi.op \in {"refresh", "inline retry", "interval"}
  /\ lastUi.widget = w
  /\ Loading(w)

\* C29: after handleWidgetRetry has set a widget's isLoading flag, from the
\* error display as well as from shown content, the flag eventually returns
\* to false without any user action.
C29_Original ==
  \A w \in WidgetIds :
    RetrySetLoading(w) ~> ~Loading(w)

\* The pending daily-refresh timers of DealsWidget instance n.
TimersOf(n) == {t \in timers : t.instance = n}

\* Instance n of DealsWidget is the one that is mounted now.
MountedNow(n) ==
  /\ "deals-widget" \in DOMAIN child
  /\ child["deals-widget"].mounted
  /\ child["deals-widget"].instance = n

\* The pending timers, and the timer that fires.
C30_State ==
  \A n \in 1..(MaxMounts + 1) :
    IF MountedNow(n) THEN Cardinality(TimersOf(n)) <= 1 ELSE TimersOf(n) = {}
C30_Step ==
  \A t \in timers : DailyRefreshFires(t) => MountedNow(t.instance)
\* C30: a mounted DealsWidget has at most one pending daily-refresh timer;
\* an instance that has unmounted has no pending timer, and loadDeals is
\* never started again for it.
C30_Original == []C30_State /\ [][C30_Step]_vars

====
